---- MODULE Spec2Model ----
(***************************************************************************)
(* Job lifecycle of the FightLab AI backend: the in-memory analysisStore,  *)
(* POST /analyze, the background task processAnalysis with its rejection   *)
(* handler, the model client's error classification and the three polling  *)
(* endpoints.                                                              *)
(*                                                                         *)
(* Node runs all of this on one event loop.  "running" names the job whose *)
(* synchronous code (or pending microtasks) currently holds the loop; an   *)
(* HTTP handler or an I/O completion starts only when running = Idle.      *)
(*                                                                         *)
(* The pure functions of the pipeline (frame selection, error              *)
(* classification, extractAndParseJSON, validateAndFixAnalysisData) are    *)
(* also applied on their own, to inputs drawn from bounded sets: FnSpec.   *)
(***************************************************************************)
EXTENDS Integers, Sequences, FiniteSets, TLC

VARIABLES
  analysisStore,  \* the Map: job id -> job record
  pc,             \* per job: where its background task stands
  call,           \* per job: the external API call (none, pending, or its result)
  thrown,         \* per job: message of the error being propagated
  responded,      \* per job: the POST /analyze response sent for it, or NoResponse
  running,        \* job whose code holds the event loop, or Idle
  http,           \* the last POST /analyze exchange that was rejected: request, response
  trial           \* a pure function applied on its own: its name, input and result

vars == <<analysisStore, pc, call, thrown, responded, running, http, trial>>

\* ------------------------------------------------------------------ bounds
MaxJobs == 2
MaxFrames == 1

Ids == 1..MaxJobs
FrameCounts == 0..MaxFrames
Idle == 0

\* ------------------------------------------------- request config (JSON)
\* The multipart text field `config`: absent, or a string.
NoField == "<absent>"
ConfigFields == {NoField, "{}", "{\"userRole\":5}", "null", "{not json"}

\* JSON.parse on the config strings above: a value, or a SyntaxError.
JSONParse(s) ==
  CASE s = "{}"                 -> [ok |-> TRUE,  value |-> [t |-> "object", userRole |-> "undefined"]]
    [] s = "{\"userRole\":5}"   -> [ok |-> TRUE,  value |-> [t |-> "object", userRole |-> "number"]]
    [] s = "null"               -> [ok |-> TRUE,  value |-> [t |-> "null"]]
    [] OTHER                    -> [ok |-> FALSE, value |-> [t |-> "SyntaxError"]]

\* let config = {}; if (req.body.config) config = JSON.parse(req.body.config)
ParseConfig(field) ==
  IF field = NoField
    THEN [ok |-> TRUE, value |-> [t |-> "object", userRole |-> "undefined"]]
    ELSE JSONParse(field)

\* ------------------------------------------------------- error messages
\* An error message is a sequence of text fragments; String.includes is
\* modelled at fragment granularity.
Includes(msg, frag) == \E i \in DOMAIN msg : msg[i] = frag

NoMessage == << >>
TypeErrorNullConfig == <<"Cannot read properties of null (reading 'analysisType')">>
TypeErrorRole       == <<"userRole.toLowerCase is not a function">>
TypeErrorNullData   == <<"Cannot read properties of null">>
ExtractErrorMessage == <<"Could not extract valid", "JSON", "from Claude response">>

\* What the external API call can do: settle with a text, fail with an
\* error object, or be aborted by the timeout timer.
ApiStatuses == {400, 429, 503}
NoStatus == 0
ApiMessages == { <<"Overloaded">> }
ApiErrors ==
  [name : {"Error"}, status : ApiStatuses \cup {NoStatus}, message : ApiMessages]
AbortError == [name |-> "AbortError", status |-> NoStatus, message |-> <<"This operation was aborted">>]

\* Model response texts, as token sequences: "w" is a word of prose,
\* FENCE_JSON and FENCE are the opening and closing markdown code fences.
ResponseTexts ==
  { <<"FENCE_JSON", "{", "}", "FENCE">>,
    <<"w", "{", "w">>,
    <<"null">> }

ApiResults ==
  [kind : {"response"}, text : ResponseTexts] \cup [kind : {"error"}, error : ApiErrors]

\* ------------------------------------------------------------ model client
\* JSON.parse on a token sequence: the value, or a SyntaxError.
\* Tokens: braces and brackets, the literal null, NUM for a number literal,
\* STR for a quoted string; "w" (prose) is not JSON.
JSONParseText(toks) ==
  CASE toks = <<"{", "}">> -> [ok |-> TRUE,  value |-> [t |-> "object"]]
    [] toks = <<"[", "]">> -> [ok |-> TRUE,  value |-> [t |-> "array"]]
    [] toks = <<"null">>   -> [ok |-> TRUE,  value |-> [t |-> "null"]]
    [] toks = <<"NUM">>    -> [ok |-> TRUE,  value |-> [t |-> "number"]]
    [] toks = <<"STR">>    -> [ok |-> TRUE,  value |-> [t |-> "string"]]
    [] OTHER               -> [ok |-> FALSE, value |-> [t |-> "SyntaxError"]]

\* Drop a leading code-fence marker with the json tag, then a leading bare
\* marker, then one trailing marker.
StripFences(toks) ==
  LET a == IF Len(toks) > 0 /\ Head(toks) = "FENCE_JSON" THEN Tail(toks) ELSE toks
      b == IF Len(a) > 0 /\ Head(a) = "FENCE" THEN Tail(a) ELSE a
  IN  IF Len(b) > 0 /\ b[Len(b)] = "FENCE" THEN SubSeq(b, 1, Len(b) - 1) ELSE b

\* cleaned.match(/\{[\s\S]*\}/): from the first "{" to the last "}".
MatchBraces(toks) ==
  LET opens  == {i \in DOMAIN toks : toks[i] = "{"}
      closes == {i \in DOMAIN toks : toks[i] = "}"}
      first  == CHOOSE i \in opens : \A k \in opens : i <= k
      last   == CHOOSE i \in closes : \A k \in closes : i >= k
  IN  IF opens # {} /\ closes # {} /\ (CHOOSE i \in opens : \A k \in opens : i <= k)
                                     < (CHOOSE i \in closes : \A k \in closes : i >= k)
        THEN [found |-> TRUE,  span |-> SubSeq(toks, first, last)]
        ELSE [found |-> FALSE, span |-> << >>]

extractAndParseJSON(text) ==
  LET cleaned == StripFences(text)
      direct  == JSONParseText(cleaned)
      m       == MatchBraces(cleaned)
      second  == JSONParseText(m.span)
  IN  IF direct.ok THEN direct
      ELSE IF m.found /\ second.ok THEN second
      ELSE [ok |-> FALSE, value |-> [t |-> "Error", message |-> ExtractErrorMessage]]

\* buildClaudePrompt -> getUserRoleType calls userRole.toLowerCase(): a
\* truthy non-string userRole raises a TypeError.
buildClaudePromptThrows(config) == config.userRole = "number"

\* validateAndFixAnalysisData reads properties of `data`: null raises.
validateAndFixAnalysisDataThrows(data) == data.t = "null"

\* catch (apiError) of analyzeWithClaude: the message of the Error thrown.
ClassifyAbortAsApiError(apiError) ==
  LET errorMessage == IF apiError.message # NoMessage THEN apiError.message ELSE <<"Unknown API error">>
  IN  IF apiError.status = 429 THEN <<"API_RATE_LIMIT", "The service is temporarily busy">>
      ELSE IF apiError.status = 400 THEN <<"API_BAD_REQUEST", "Invalid request to AI service">> \o errorMessage
      ELSE IF apiError.status \in {500, 502, 503} THEN <<"API_SERVICE_ERROR", "AI service is temporarily unavailable">>
      ELSE <<"API_ERROR">> \o errorMessage

ClassifyApiError(apiError) ==
  LET errorMessage == IF apiError.message # NoMessage THEN apiError.message ELSE <<"Unknown API error">>
  IN  IF apiError.name = "AbortError" THEN <<"TIMEOUT", "Analysis took too long (12+ minutes)">>
      ELSE IF apiError.status = 429 THEN <<"API_RATE_LIMIT", "The service is temporarily busy">>
      ELSE IF apiError.status = 400 THEN <<"API_BAD_REQUEST", "Invalid request to AI service">> \o errorMessage
      ELSE IF apiError.status \in {500, 502, 503} THEN <<"API_SERVICE_ERROR", "AI service is temporarily unavailable">>
      ELSE <<"API_ERROR">> \o errorMessage

\* analyzeWithClaude after the API call has settled with `result`:
\* [ok |-> TRUE, data |-> ...] or [ok |-> FALSE, message |-> ...].
analyzeWithClaude(config, result) ==
  IF result.kind = "error"
    THEN [ok |-> FALSE, data |-> [t |-> "none"], message |-> ClassifyApiError(result.error)]
    ELSE LET parsed == extractAndParseJSON(result.text)
         IN  IF ~parsed.ok
               THEN [ok |-> FALSE, data |-> [t |-> "none"], message |-> parsed.value.message]
             ELSE IF validateAndFixAnalysisDataThrows(parsed.value)
               THEN [ok |-> FALSE, data |-> [t |-> "none"], message |-> TypeErrorNullData]
             ELSE [ok |-> TRUE, data |-> parsed.value, message |-> NoMessage]

\* --------------------------------------------------------------- job store
Null == "null"
NoReport == [t |-> "undefined"]
DefaultRole == "I'm preparing to fight this opponent"

\* analysisStore.set(analysisId, {id, status:'processing', progress:0, config, createdAt, frames})
\* "keys" holds the optional properties the object currently has; a deleted
\* or never assigned property holds its placeholder (frames 0, NoReport, ...).
InitialRecord(id, config, frames) ==
  [ id |-> id, status |-> "processing", progress |-> 0, config |-> config,
    keys |-> {"frames"}, frames |-> frames,
    report |-> NoReport, error |-> NoMessage, shouldRefund |-> FALSE, refundReason |-> Null ]

\* normalizeConfig: a new object; userRole replaced by the default phrase
\* unless it is one of the three accepted phrases.
normalizeConfig(config) ==
  IF config.t = "null" THEN config
  ELSE [t |-> "object", userRole |-> DefaultRole]

\* const completeReport = {id, config: normalizedConfig, ..., status:'Completed', ...analysisData}
CompleteReport(id, config, data) ==
  [id |-> id, status |-> "Completed", config |-> normalizeConfig(config), data |-> data]

\* processAnalysis, end of the try block.
CompletedRecord_KeepFrames(rec, report) ==
  [rec EXCEPT !.status = "completed", !.progress = 100, !.report = report,
              !.keys = rec.keys \cup {"report"}]

CompletedRecord_NoReport(rec, report) ==
  [rec EXCEPT !.status = "completed", !.progress = 100,
              !.frames = 0,
              !.keys = rec.keys \ {"frames"}]

CompletedRecord_ConfigNormalized(rec, report) ==
  [rec EXCEPT !.status = "completed", !.progress = 100, !.report = report,
              !.config = report.config,
              !.frames = 0,
              !.keys = (rec.keys \cup {"report"}) \ {"frames"}]

CompletedRecord(rec, report) ==
  [rec EXCEPT !.status = "completed", !.progress = 100, !.report = report,
              !.frames = 0,
              !.keys = (rec.keys \cup {"report"}) \ {"frames"}]

\* processAnalysis, catch block: the refund reason chosen from the message.
RefundReason(message) ==
  IF Includes(message, "TIMEOUT")
    THEN "Analysis timed out - please try with a shorter video or fewer frames"
  ELSE IF Includes(message, "API_RATE_LIMIT")
    THEN "Service temporarily busy - please try again in a few minutes"
  ELSE IF Includes(message, "API_SERVICE_ERROR")
    THEN "AI service temporarily unavailable - please try again later"
  ELSE IF Includes(message, "API_BAD_REQUEST")
    THEN "Invalid video format - please ensure the video is valid"
  ELSE IF Includes(message, "JSON")
    THEN "Analysis response was invalid - please try again"
  ELSE "Server error during analysis - please try again"

\* processAnalysis, catch block.
FailedRecord_ResetProgress(rec, message) ==
  [rec EXCEPT !.status = "failed", !.progress = 0, !.error = message, !.shouldRefund = TRUE,
              !.refundReason = RefundReason(message),
              !.frames = 0,
              !.keys = (rec.keys \cup {"error", "shouldRefund", "refundReason"}) \ {"frames"}]

FailedRecord_Progress100(rec, message) ==
  [rec EXCEPT !.status = "failed", !.progress = 100, !.error = message, !.shouldRefund = TRUE,
              !.refundReason = RefundReason(message),
              !.frames = 0,
              !.keys = (rec.keys \cup {"error", "shouldRefund", "refundReason"}) \ {"frames"}]

FailedRecord(rec, message) ==
  [rec EXCEPT !.status = "failed", !.error = message, !.shouldRefund = TRUE,
              !.refundReason = RefundReason(message),
              !.frames = 0,
              !.keys = (rec.keys \cup {"error", "shouldRefund", "refundReason"}) \ {"frames"}]

\* POST /analyze, the handler given to processAnalysis(...).catch.
RejectionRecord_Requeue(rec, message) ==
  [rec EXCEPT !.status = "processing", !.error = message, !.shouldRefund = TRUE,
              !.refundReason = IF Includes(message, "TIMEOUT")
                                 THEN "Analysis timed out - please try with a shorter video"
                                 ELSE "Server error during analysis",
              !.frames = 0,
              !.keys = (rec.keys \cup {"error", "shouldRefund", "refundReason"}) \ {"frames"}]

RejectionRecord(rec, message) ==
  [rec EXCEPT !.status = "failed", !.error = message, !.shouldRefund = TRUE,
              !.refundReason = IF Includes(message, "TIMEOUT")
                                 THEN "Analysis timed out - please try with a shorter video"
                                 ELSE "Server error during analysis",
              !.frames = 0,
              !.keys = (rec.keys \cup {"error", "shouldRefund", "refundReason"}) \ {"frames"}]

\* ---------------------------------------------------------- HTTP endpoints
NotFound == [code |-> 404, body |-> [error |-> "Analysis not found"]]

StatusMap(status) ==
  CASE status = "processing" -> "Processing"
    [] status = "completed"  -> "Completed"
    [] status = "failed"     -> "Failed"
    [] OTHER                 -> status

StatusMessage(stored) ==
  IF stored.status = "completed" THEN <<"Analysis complete">>
  ELSE IF stored.status = "failed"
    THEN (IF "error" \in stored.keys /\ stored.error # NoMessage THEN stored.error ELSE <<"Analysis failed">>)
  ELSE <<"Analysis in progress">>

\* GET /api/analysis/status/:id
GetStatus_NoRefundInfo(store, id) ==
  IF id \notin DOMAIN store THEN NotFound
  ELSE [code |-> 200,
        body |-> [status |-> StatusMap(store[id].status), progress |-> store[id].progress,
                  message |-> StatusMessage(store[id]),
                  shouldRefund |-> FALSE, refundReason |-> Null, error |-> NoMessage]]

GetStatus(store, id) ==
  IF id \notin DOMAIN store THEN NotFound
  ELSE LET stored == store[id] IN
    IF stored.status = "failed"
      THEN [code |-> 200,
            body |-> [status |-> StatusMap(stored.status), progress |-> stored.progress,
                      message |-> StatusMessage(stored),
                      shouldRefund |-> IF "shouldRefund" \in stored.keys THEN stored.shouldRefund ELSE FALSE,
                      refundReason |-> IF "refundReason" \in stored.keys THEN stored.refundReason ELSE Null,
                      error |-> IF "error" \in stored.keys /\ stored.error # NoMessage
                                  THEN stored.error ELSE <<"Analysis failed">>]]
      ELSE [code |-> 200,
            body |-> [status |-> StatusMap(stored.status), progress |-> stored.progress,
                      message |-> StatusMessage(stored)]]

\* GET /analysis/:id
GetAnalysis(store, id) ==
  IF id \notin DOMAIN store THEN NotFound
  ELSE IF store[id].status # "completed"
    THEN [code |-> 202, body |-> [message |-> "Analysis not yet complete",
                                  status |-> store[id].status, progress |-> store[id].progress]]
  ELSE [code |-> 200, body |-> store[id].report]

\* GET /api/analysis/report/:id
GetAnalysisReport_ByReport(store, id) ==
  IF id \notin DOMAIN store THEN NotFound
  ELSE IF store[id].status = "processing"
    THEN [code |-> 202, body |-> [message |-> "Analysis not yet complete",
                                  status |-> store[id].status, progress |-> store[id].progress]]
  ELSE [code |-> 200, body |-> store[id].report]

GetAnalysisReport(store, id) ==
  IF id \notin DOMAIN store THEN NotFound
  ELSE IF store[id].status # "completed"
    THEN [code |-> 202, body |-> [message |-> "Analysis not yet complete",
                                  status |-> store[id].status, progress |-> store[id].progress]]
  ELSE [code |-> 200, body |-> store[id].report]

\* ------------------------------------------------------------------- state
NoResponse == [code |-> 0]
NotCalled == [kind |-> "none"]
Pending   == [kind |-> "pending"]
Aborted   == [kind |-> "error", error |-> AbortError]

NoTrial == [op |-> "none"]

\* No job submitted, nothing in flight.
Quiescent ==
  /\ analysisStore = << >>
  /\ pc = [j \in Ids |-> "none"]
  /\ call = [j \in Ids |-> NotCalled]
  /\ thrown = [j \in Ids |-> NoMessage]
  /\ responded = [j \in Ids |-> NoResponse]
  /\ running = Idle
  /\ http = [req |-> [frames |-> 0, config |-> NoField], res |-> NoResponse]

Init ==
  /\ Quiescent
  /\ trial = NoTrial

\* ----------------------------------------------------------- POST /analyze
\* The handler up to the call of processAnalysis: config is parsed first
\* (a SyntaxError goes to the handler's catch: 500), then the frame count is
\* checked (400), then the record is stored and the task starts running
\* inside the handler.
PostAnalyze(frames, field) ==
  /\ running = Idle
  /\ LET parsed == ParseConfig(field)
         req    == [frames |-> frames, config |-> field]
         id     == Len(analysisStore) + 1
     IN  IF ~parsed.ok
           THEN /\ http' = [req |-> req, res |-> [code |-> 500, body |-> [error |-> "Failed to start analysis"]]]
                /\ UNCHANGED <<trial, analysisStore, pc, call, thrown, responded, running>>
         ELSE IF frames = 0
           THEN /\ http' = [req |-> req, res |-> [code |-> 400, body |-> [error |-> "No frames provided"]]]
                /\ UNCHANGED <<trial, analysisStore, pc, call, thrown, responded, running>>
         ELSE /\ id \in Ids
              /\ analysisStore' = Append(analysisStore, InitialRecord(id, parsed.value, frames))
              /\ pc' = [pc EXCEPT ![id] = "p10"]
              /\ running' = id
              /\ UNCHANGED <<trial, call, thrown, responded, http>>

\* res.json({analysisID, status:'processing', ...}): reached when
\* processAnalysis has returned its promise, i.e. at its first suspension or
\* after it has thrown synchronously.
Respond(j) ==
  /\ running = j
  /\ responded[j] = NoResponse
  /\ pc[j] \in {"suspended", "resume", "rejected"}
  /\ responded' = [responded EXCEPT ![j] =
                     [code |-> 200, body |-> [analysisID |-> j, status |-> "processing"]]]
  /\ running' = IF pc[j] = "suspended" THEN Idle ELSE j
  /\ UNCHANGED <<trial, analysisStore, pc, call, thrown, http>>

\* --------------------------------------------------------- processAnalysis
\* stored.progress = 10
Progress10(j) ==
  /\ running = j /\ pc[j] = "p10"
  /\ analysisStore' = [analysisStore EXCEPT ![j].progress = 10]
  /\ pc' = [pc EXCEPT ![j] = "log"]
  /\ UNCHANGED <<trial, call, thrown, responded, running, http>>

\* The logging between the two writes reads config.analysisType: a null
\* config raises a TypeError inside the try block.
LogStart(j) ==
  /\ running = j /\ pc[j] = "log"
  /\ IF analysisStore[j].config.t = "null"
       THEN /\ pc' = [pc EXCEPT ![j] = "catch"]
            /\ thrown' = [thrown EXCEPT ![j] = TypeErrorNullConfig]
       ELSE /\ pc' = [pc EXCEPT ![j] = "p30"]
            /\ UNCHANGED thrown
  /\ UNCHANGED <<trial, analysisStore, call, responded, running, http>>

\* stored.progress = 30
Progress30(j) ==
  /\ running = j /\ pc[j] = "p30"
  /\ analysisStore' = [analysisStore EXCEPT ![j].progress = 30]
  /\ pc' = [pc EXCEPT ![j] = "call"]
  /\ UNCHANGED <<trial, call, thrown, responded, running, http>>

\* await analyzeWithClaude(frames, config): the prompt is built, then the
\* request is sent and the task suspends.  A throw of the prompt builder
\* rejects the awaited promise at once; the task resumes in a microtask.
CallClaude(j) ==
  /\ running = j /\ pc[j] = "call"
  /\ IF buildClaudePromptThrows(analysisStore[j].config)
       THEN /\ pc' = [pc EXCEPT ![j] = "resume"]
            /\ thrown' = [thrown EXCEPT ![j] = TypeErrorRole]
            /\ UNCHANGED call
       ELSE /\ pc' = [pc EXCEPT ![j] = "suspended"]
            /\ call' = [call EXCEPT ![j] = Pending]
            /\ UNCHANGED thrown
  /\ UNCHANGED <<trial, analysisStore, responded, running, http>>

\* Microtask: the await of an already rejected promise throws in the try.
ResumeRejected(j) ==
  /\ running = j /\ pc[j] = "resume" /\ responded[j] # NoResponse
  /\ pc' = [pc EXCEPT ![j] = "catch"]
  /\ UNCHANGED <<trial, analysisStore, call, thrown, responded, running, http>>

\* The API call has settled with `result`: analyzeWithClaude finishes
\* (classification, JSON extraction, normalization) and the task resumes.
Settle(j, result) ==
  /\ running = Idle /\ pc[j] = "suspended" /\ call[j] = Pending
  /\ call' = [call EXCEPT ![j] = result]
  /\ running' = j
  /\ LET out == analyzeWithClaude(analysisStore[j].config, result)
     IN  IF out.ok
           THEN /\ pc' = [pc EXCEPT ![j] = "p90"]
                /\ UNCHANGED thrown
           ELSE /\ pc' = [pc EXCEPT ![j] = "catch"]
                /\ thrown' = [thrown EXCEPT ![j] = out.message]
  /\ UNCHANGED <<trial, analysisStore, responded, http>>

\* The external API answers or fails.
ApiSettles(j) == \E result \in ApiResults : Settle(j, result)

\* The 12-minute timer fires first: controller.abort() rejects the call.
TimeoutFires(j) == Settle(j, Aborted)

\* stored.progress = 90
Progress90(j) ==
  /\ running = j /\ pc[j] = "p90"
  /\ analysisStore' = [analysisStore EXCEPT ![j].progress = 90]
  /\ pc' = [pc EXCEPT ![j] = "complete"]
  /\ UNCHANGED <<trial, call, thrown, responded, running, http>>

\* Report assembly and the terminal write of the try block.
Complete(j) ==
  /\ running = j /\ pc[j] = "complete"
  /\ LET out == analyzeWithClaude(analysisStore[j].config, call[j])
         completeReport == CompleteReport(j, analysisStore[j].config, out.data)
     IN  analysisStore' = [analysisStore EXCEPT ![j] = CompletedRecord(@, completeReport)]
  /\ pc' = [pc EXCEPT ![j] = "done"]
  /\ running' = Idle
  /\ UNCHANGED <<trial, call, thrown, responded, http>>

\* The catch block: record the failure, then rethrow.
Catch_LatestJob(j) ==
  /\ running = j /\ pc[j] = "catch"
  /\ analysisStore' = [analysisStore EXCEPT ![Len(analysisStore)] = FailedRecord(@, thrown[j])]
  /\ pc' = [pc EXCEPT ![j] = "rejected"]
  /\ UNCHANGED <<trial, call, thrown, responded, running, http>>

Catch(j) ==
  /\ running = j /\ pc[j] = "catch"
  /\ analysisStore' = [analysisStore EXCEPT ![j] = FailedRecord(@, thrown[j])]
  /\ pc' = [pc EXCEPT ![j] = "rejected"]
  /\ UNCHANGED <<trial, call, thrown, responded, running, http>>

\* Microtask: the .catch handler attached in POST /analyze.
HandleRejection(j) ==
  /\ running = j /\ pc[j] = "rejected" /\ responded[j] # NoResponse
  /\ analysisStore' = [analysisStore EXCEPT ![j] = RejectionRecord(@, thrown[j])]
  /\ pc' = [pc EXCEPT ![j] = "done"]
  /\ running' = Idle
  /\ UNCHANGED <<trial, call, thrown, responded, http>>

\* ------------------------------------------------------------------- polls
\* The three GET handlers only read the store: what they answer in a state
\* is GetStatus, GetAnalysis and GetAnalysisReport of that state.  They run
\* as event-loop tasks of their own, so only when no other code is running.
PollStatus(id) ==
  /\ running = Idle
  /\ GetStatus(analysisStore, id).code \in {200, 404}
  /\ UNCHANGED vars

PollAnalysis(id) ==
  /\ running = Idle
  /\ GetAnalysis(analysisStore, id).code \in {200, 202, 404}
  /\ UNCHANGED vars

PollReport(id) ==
  /\ running = Idle
  /\ GetAnalysisReport(analysisStore, id).code \in {200, 202, 404}
  /\ UNCHANGED vars

\* ----------------------------------------------------------- specification
TaskStep(j) ==
  \/ Respond(j)
  \/ Progress10(j)
  \/ LogStart(j)
  \/ Progress30(j)
  \/ CallClaude(j)
  \/ ResumeRejected(j)
  \/ Progress90(j)
  \/ Complete(j)
  \/ Catch(j)
  \/ HandleRejection(j)

Next ==
  \/ \E frames \in FrameCounts, field \in ConfigFields : PostAnalyze(frames, field)
  \/ \E j \in Ids : TaskStep(j)
  \/ \E j \in Ids : ApiSettles(j)
  \/ \E j \in Ids : TimeoutFires(j)
  \/ \E id \in Ids : PollStatus(id)
  \/ \E id \in Ids : PollAnalysis(id)
  \/ \E id \in Ids : PollReport(id)

Spec == Init /\ [][Next]_vars

\* The event loop runs every runnable step, every API call settles or is
\* aborted by its timer.
FairSpec ==
  /\ Spec
  /\ \A j \in Ids : WF_vars(TaskStep(j))
  /\ \A j \in Ids : WF_vars(TimeoutFires(j) \/ ApiSettles(j))

\* ============================================================= JSON values
\* A parsed JSON value or a JavaScript value built by the normalizer.  An
\* object's props is a function from property names to values; an array has
\* items and, like any JavaScript object, may carry named properties.
Undefined == [t |-> "undefined"]
JNull     == [t |-> "null"]
Bool(b)   == [t |-> "boolean", b |-> b]
Num(n)    == [t |-> "number", n |-> n]
Str(s)    == [t |-> "string", s |-> s]
EmptyProps == [k \in {} |-> Undefined]
Arr(items) == [t |-> "array", items |-> items, props |-> EmptyProps]
Obj(props) == [t |-> "object", props |-> props]
NaN       == [t |-> "NaN"]

\* The TypeError raised by a property access on null or undefined; an
\* operation applied to it yields it again (the exception propagates).
TypeError == [t |-> "TypeError"]
Thrown(v) == v.t = "TypeError"
Nullish(v) == v.t \in {"undefined", "null"}

\* The truth value of v in `if (v)`, `!v`, `v || d`.
Truthy(v) ==
  CASE v.t \in {"undefined", "null", "NaN"} -> FALSE
    [] v.t = "boolean" -> v.b
    [] v.t = "number"  -> v.n # 0
    [] v.t = "string"  -> v.s # ""
    [] OTHER           -> TRUE

\* v.k, read.
Get(v, k) ==
  CASE Thrown(v) \/ Nullish(v) -> TypeError
    [] v.t = "object" -> IF k \in DOMAIN v.props THEN v.props[k] ELSE Undefined
    [] v.t = "array"  -> IF k = "length" THEN Num(Len(v.items))
                         ELSE IF k \in DOMAIN v.props THEN v.props[k] ELSE Undefined
    [] v.t = "string" -> IF k = "length" THEN Num(Len(v.s)) ELSE Undefined
    [] OTHER          -> Undefined

\* v.k = x, the value of v afterwards.  The file is a CommonJS script
\* without 'use strict': an assignment to a property of a number, string or
\* boolean is silently ignored.
Set(v, k, x) ==
  CASE Thrown(v) \/ Thrown(x) \/ Nullish(v) -> TypeError
    [] v.t \in {"object", "array"} -> [v EXCEPT !.props = (k :> x) @@ v.props]
    [] OTHER -> v

\* delete v.k
Delete(v, k) ==
  CASE Thrown(v) \/ Nullish(v) -> TypeError
    [] v.t \in {"object", "array"} ->
         [v EXCEPT !.props = [p \in (DOMAIN v.props) \ {k} |-> v.props[p]]]
    [] OTHER -> v

\* v.k1.k2 = x
SetIn(v, k1, k2, x) == Set(v, k1, Set(Get(v, k1), k2, x))

\* Statements run in order: {next(d) : d \in {prev}} is the value the
\* statement next leaves, given the value d the statements before it left.
The(S) == CHOOSE v \in S : TRUE

\* if (!v.k) v.k = d
Default(v, k, d) ==
  LET cur == Get(v, k)
  IN  IF Thrown(cur) THEN TypeError ELSE IF Truthy(cur) THEN v ELSE Set(v, k, d)

\* x.k = []; for (let i = 1; i <= n; i++) x.k.push(entries[i]) -- x.k is
\* read back for each push, so a primitive x (whose property stays
\* undefined) raises at the first push.
Rebuild(x, k, entries) ==
  LET cleared == Set(x, k, Arr(<< >>))
  IN  IF Thrown(cleared) THEN TypeError
      ELSE IF Len(entries) >= 1 /\ Get(cleared, k).t # "array" THEN TypeError
      ELSE Set(cleared, k, Arr(entries))

\* !x.k || x.k.length === 0   and   !x.k || x.k.length < n
MissingOrEmpty(x, k) ==
  LET cur == Get(x, k)
      len == Get(cur, "length")
  IN  ~Truthy(cur) \/ (len.t = "number" /\ len.n = 0)
MissingOrShorter(x, k, n) ==
  LET cur == Get(x, k)
      len == Get(cur, "length")
  IN  ~Truthy(cur) \/ (len.t = "number" /\ len.n < n)

\* ------------------------------------------------------------ the helpers
\* Strings that parseFloat reads as a number (a leading numeric prefix).
Numerals == [s \in {"85", "3 rounds"} |-> IF s = "85" THEN 85 ELSE 3]

\* parseFloat(val): val is converted to a string first; an array becomes
\* its elements joined by commas, so its first element decides.
RECURSIVE parseFloat(_)
parseFloat(val) ==
  CASE val.t = "number" -> val
    [] val.t = "string" -> IF val.s \in DOMAIN Numerals THEN Num(Numerals[val.s]) ELSE NaN
    [] val.t = "array"  -> IF val.items = << >> THEN NaN ELSE parseFloat(val.items[1])
    [] OTHER            -> NaN

ensureArray(val, defaultArr) ==
  IF Thrown(val) THEN val ELSE IF val.t = "array" THEN val ELSE defaultArr

ensureNumber(val, defaultVal) ==
  IF Thrown(val) THEN val
  ELSE IF val.t = "number" THEN val
  ELSE IF parseFloat(val).t = "NaN" THEN defaultVal ELSE parseFloat(val)

ensureString(val, defaultVal) ==
  IF Thrown(val) THEN val ELSE IF val.t = "string" THEN val ELSE defaultVal

\* --------------------------------------------------------------- role type
\* A role string is a sequence of text fragments, as error messages are.
NoRole == << >>
FighterPhrase == <<"I'm ", "preparing to fight", " this opponent">>
CoachPhrase   == <<"Coach", " analyzing for student">>
StudyPhrase   == <<"General", " ", "study", " / ", "Analysis">>

LowerOf ==
  ("I'm " :> "i'm ") @@ ("Coach" :> "coach") @@ ("General" :> "general")
    @@ ("Analysis" :> "analysis") @@ ("Fighter" :> "fighter") @@ ("STUDY" :> "study")
    @@ ("FIGHTER" :> "fighter") @@ ("COACH" :> "coach") @@ ("GENERAL" :> "general")
    @@ ("Preparing To Fight" :> "preparing to fight") @@ ("Head " :> "head ")
toLowerCase(frags) ==
  [i \in DOMAIN frags |-> IF frags[i] \in DOMAIN LowerOf THEN LowerOf[frags[i]] ELSE frags[i]]

getUserRoleType_CoachFirst(userRole) ==
  LET lower == toLowerCase(userRole)
  IN  IF userRole = NoRole THEN "fighter"
      ELSE IF Includes(lower, "coach") THEN "coach"
      ELSE IF Includes(lower, "preparing to fight") \/ Includes(lower, "fighter") THEN "fighter"
      ELSE IF Includes(lower, "study") \/ Includes(lower, "analysis") \/ Includes(lower, "general")
        THEN "study"
      ELSE "fighter"

getUserRoleType(userRole) ==
  LET lower == toLowerCase(userRole)
  IN  IF userRole = NoRole THEN "fighter"
      ELSE IF Includes(lower, "preparing to fight") \/ Includes(lower, "fighter") THEN "fighter"
      ELSE IF Includes(lower, "coach") THEN "coach"
      ELSE IF Includes(lower, "study") \/ Includes(lower, "analysis") \/ Includes(lower, "general")
        THEN "study"
      ELSE "fighter"

\* ======================================================= report normalizer
\* The config as validateAndFixAnalysisData reads it: analysisType, userRole
\* (NoRole when absent or empty), the two round counts (0 when absent) and
\* the fighter names (NoName when absent).
NoName == ""
DefaultRounds == 3   \* config.userFightRounds || 3, config.videoRounds || 3
OrDefault_Always(n) == DefaultRounds
OrDefault(n) == IF n = 0 THEN DefaultRounds ELSE n
NameOr(name, default) == IF name = NoName THEN default ELSE name

EmptyArray == Arr(<< >>)
Strs(seq) == Arr([i \in DOMAIN seq |-> Str(seq[i])])
RoundText(i, rest) == "Round " \o ToString(i) \o rest

\* The helper named `ensure` applied to val.
Ensure(ensure, val, default) ==
  CASE ensure = "ensureArray"  -> ensureArray(val, default)
    [] ensure = "ensureNumber" -> ensureNumber(val, default)
    [] ensure = "ensureString" -> ensureString(val, default)

\* d.sec.k = ensure(d.sec.k, default)
Coerce(d, sec, k, ensure, default) ==
  SetIn(d, sec, k, Ensure(ensure, Get(Get(d, sec), k), default))

\* if (!d.sec.k) d.sec.k = default
DefaultIn(d, sec, k, default) == Set(d, sec, Default(Get(d, sec), k, default))

\* if (!d.sec) d.sec = default; else { ... }: coerced is d after the else
\* branch.
Section(d, sec, default, coerced) ==
  LET cur == Get(d, sec)
  IN  IF Thrown(cur) THEN TypeError
      ELSE IF ~Truthy(cur) THEN Set(d, sec, default)
      ELSE coerced

\* if (!d.sec.k || d.sec.k.length === 0) { d.sec.k = []; n pushes }
RebuildIfEmpty(d, sec, k, entries) ==
  LET x == Get(d, sec)
  IN  IF Thrown(Get(x, k)) THEN TypeError
      ELSE IF MissingOrEmpty(x, k) THEN Set(d, sec, Rebuild(x, k, entries))
      ELSE d

\* if (!d.sec.k || d.sec.k.length < n) { d.sec.k = []; n pushes }
RebuildIfShorter(d, sec, k, n, entries) ==
  LET x == Get(d, sec)
  IN  IF Thrown(Get(x, k)) THEN TypeError
      ELSE IF MissingOrShorter(x, k, n) THEN Set(d, sec, Rebuild(x, k, entries))
      ELSE d

\* ------------------------------------------------------ default sections
DefaultBreakdown ==
  Obj([jabs |-> Num(0), crosses |-> Num(0), hooks |-> Num(0), uppercuts |-> Num(0),
       kicks |-> Num(0), knees |-> Num(0), elbows |-> Num(0)])
DefaultStrikeAnalysis ==
  Obj([accuracy |-> Num(50), volume |-> Num(0), powerScore |-> Num(50),
       techniqueScore |-> Num(50), breakdown |-> DefaultBreakdown,
       patterns |-> EmptyArray, recommendations |-> EmptyArray])
DefaultGrapplingAnalysis ==
  Obj([takedownAccuracy |-> Num(50), takedownDefense |-> Num(50), controlTime |-> Num(0),
       submissionAttempts |-> Num(0), techniques |-> EmptyArray, recommendations |-> EmptyArray])
DefaultDefenseAnalysis ==
  Obj([headMovement |-> Num(50), footwork |-> Num(50), blockingRate |-> Num(50),
       counterStrikeRate |-> Num(50), vulnerabilities |-> EmptyArray, improvements |-> EmptyArray])
DefaultCardioAnalysis ==
  Obj([roundByRound |-> EmptyArray, overallStamina |-> Num(70),
       fatigueIndicators |-> EmptyArray, recommendations |-> EmptyArray])
DefaultFightIQ ==
  Obj([overallScore |-> Num(70), decisionMaking |-> Num(70), adaptability |-> Num(70),
       strategyExecution |-> Num(70), keyObservations |-> EmptyArray, improvements |-> EmptyArray])
DefaultStrengthsWeaknesses(description, strategy) ==
  Obj([strengths |-> Arr(<< Obj([title |-> Str("To be analyzed"), description |-> Str(description),
                                 score |-> Num(70), statistics |-> JNull]) >>),
       weaknesses |-> Arr(<< Obj([title |-> Str("To be analyzed"), description |-> Str(description),
                                  severity |-> Num(50), exploitablePattern |-> Str(""),
                                  frequency |-> JNull, exploitationStrategy |-> Str(strategy)]) >>),
       opportunitiesToExploit |-> EmptyArray])
DefaultMistakePatterns == Obj([patterns |-> EmptyArray])
DefaultCounterStrategy ==
  Obj([bestCounter |-> Obj([style |-> Str("Balanced approach"), reason |-> Str("Adapt based on opponent")]),
       secondBestCounter |-> Obj([style |-> Str("Pressure fighting"), reason |-> Str("Test their cardio")]),
       thirdBestCounter |-> Obj([style |-> Str("Counter striking"), reason |-> Str("Exploit openings")]),
       techniquesToEmphasize |-> EmptyArray])
DefaultFightingStyle(description, attributes) ==
  Obj([primaryStyle |-> Str("Mixed Martial Artist"), stance |-> Str("Orthodox"),
       secondarySkills |-> EmptyArray, baseMartialArts |-> Strs(<<"MMA">>),
       styleDescription |-> Str(description), secondaryAttributes |-> attributes,
       comparableFighters |-> EmptyArray, tacticalTendencies |-> EmptyArray])
DefaultGamePlan ==
  Obj([overallStrategy |-> Str("Implement a balanced game plan."), roundByRound |-> EmptyArray,
       roundGamePlans |-> EmptyArray, keyTactics |-> EmptyArray, thingsToAvoid |-> EmptyArray])
DefaultMidFightAdjustments == Obj([adjustments |-> EmptyArray])
DefaultTrainingRecommendations ==
  Obj([priorityDrills |-> EmptyArray, sparringFocus |-> EmptyArray, conditioning |-> EmptyArray])
DefaultKeyInsights ==
  Obj([criticalObservations |-> EmptyArray, winConditions |-> EmptyArray, riskFactors |-> EmptyArray,
       finalRecommendation |-> Str("Focus on your strengths and stay disciplined."),
       confidenceLevel |-> Str("Medium")])
DefaultOpponentPreparation ==
  Obj([keyDangers |-> EmptyArray, tacticalAdjustments |-> EmptyArray,
       preparationGuidance |-> EmptyArray, similarStyleGuidance |-> JNull])
DefaultMatchupAnalysis ==
  Obj([summary |-> Str("Matchup analysis not available"), keyMatchups |-> EmptyArray,
       criticalMoments |-> EmptyArray, opponentPreparation |-> DefaultOpponentPreparation])

\* The synthesized per-round entries.
CardioRound(i, rest) ==
  Obj([roundNumber |-> Num(i), outputLevel |-> Num(80), staminaScore |-> Num(80),
       notes |-> Str(RoundText(i, rest))])
MetricsRound(i) ==
  Obj([roundNumber |-> Num(i), outputLevel |-> Num(75), notes |-> Str(RoundText(i, "")),
       striking |-> Obj([strikesLanded |-> Num(10), strikesAttempted |-> Num(20), accuracy |-> Num(50),
                         significantStrikes |-> Num(5), powerStrikes |-> Num(3), headStrikes |-> Num(4),
                         bodyStrikes |-> Num(3), legStrikes |-> Num(3), knockdowns |-> Num(0)]),
       grappling |-> Obj([takedownsLanded |-> Num(0), takedownsAttempted |-> Num(1),
                          takedownAccuracy |-> Num(0), takedownsDefended |-> Num(0),
                          takedownDefenseRate |-> Num(50), controlTimeSeconds |-> Num(0),
                          submissionAttempts |-> Num(0), reversals |-> Num(0)]),
       defense |-> Obj([strikesAbsorbed |-> Num(10), strikesAvoided |-> Num(50),
                        headMovementSuccess |-> Num(50), takedownsDefended |-> Num(0),
                        escapes |-> Num(0)])])
PlanRound(i) ==
  Obj([roundNumber |-> Num(i), objective |-> Str(RoundText(i, " objective")),
       tactics |-> Strs(<<"Stay focused", "Execute game plan">>),
       keyFocus |-> Str("Maintain composure")])
Plan(name, goal, tactic, indicator, trigger) ==
  Obj([name |-> Str(name), goal |-> Str(goal), tactics |-> Strs(<<tactic>>),
       successIndicators |-> Strs(<<indicator>>), switchTrigger |-> trigger])
RoundGamePlan(i, triggerA) ==
  Obj([roundNumber |-> Num(i), title |-> Str(RoundText(i, " Strategy")),
       planA |-> Plan("Primary Plan", "Execute strategy", "Stay focused", "Landing strikes", Str(triggerA)),
       planB |-> Plan("Backup Plan", "Adjust approach", "Change rhythm", "Creating openings", Str("If needed")),
       planC |-> Plan("Emergency Plan", "Survive and recover", "Clinch and control",
                      "Regaining composure", JNull)])

\* for (let i = 1; i <= n; i++) ... push(...): the entries pushed.
CardioRounds(n, rest) == [i \in 1..n |-> CardioRound(i, rest)]
MetricsRounds(n) == [i \in 1..n |-> MetricsRound(i)]
PlanRounds(n) == [i \in 1..n |-> PlanRound(i)]
RoundGamePlans(n, triggerA) == [i \in 1..n |-> RoundGamePlan(i, triggerA)]

\* ------------------------------------------- validateSingleFighterAnalysis
validateSingleFighterAnalysis(data, fighterName, videoRounds) ==
  LET d1  == Default(data, "fighterIdentification",
               Obj([confirmedName |-> Str(fighterName),
                    visualIdentifiers |-> Str("Identified based on description"),
                    confidenceLevel |-> Str("Medium"), observedStyle |-> Str("Mixed"),
                    declaredBackground |-> Str("Not specified"), styleMismatch |-> Bool(FALSE)]))
      d2  == The({Default(d, "executiveSummary",
               Obj([overallScore |-> Num(70), summary |-> Str("Analysis of " \o fighterName),
                    keyFindings |-> Strs(<<"Analysis data available">>),
                    recommendedApproach |-> Str("See detailed analysis")])) : d \in {d1}})
      d3  == The({Default(d, "fightingStyleBreakdown",
               DefaultFightingStyle(fighterName \o " shows mixed martial arts abilities.", EmptyArray)) : d \in {d2}})
      d4  == The({Default(d, "strikeAnalysis", DefaultStrikeAnalysis) : d \in {d3}})
      d5  == The({Default(d, "grapplingAnalysis", DefaultGrapplingAnalysis) : d \in {d4}})
      d6  == The({Default(d, "defenseAnalysis", DefaultDefenseAnalysis) : d \in {d5}})
      d7  == The({Default(d, "cardioAnalysis", DefaultCardioAnalysis) : d \in {d6}})
      d8  == The({RebuildIfEmpty(d, "cardioAnalysis", "roundByRound", CardioRounds(videoRounds, "")) : d \in {d7}})
      d9  == The({Default(d, "fightIQ", DefaultFightIQ) : d \in {d8}})
      d10 == The({Default(d, "strengthsWeaknesses", DefaultStrengthsWeaknesses("See details", "")) : d \in {d9}})
      d11 == The({Default(d, "mistakePatterns", DefaultMistakePatterns) : d \in {d10}})
      d12 == The({Default(d, "counterStrategy", DefaultCounterStrategy) : d \in {d11}})
      d13 == The({Default(d, "roundByRoundMetrics", Obj([rounds |-> EmptyArray])) : d \in {d12}})
  IN  The({RebuildIfShorter(d, "roundByRoundMetrics", "rounds", videoRounds,
                       MetricsRounds(videoRounds)) : d \in {d13}})

\* --------------------------------------------- validateAndFixAnalysisData
\* Callbacks of the .map calls: reading a property of a null element raises.
FixStrength(s) ==
  IF Nullish(s) THEN TypeError
  ELSE Obj([title |-> ensureString(Get(s, "title"), Str("Strength")),
            description |-> ensureString(Get(s, "description"), Str("")),
            score |-> ensureNumber(Get(s, "score"), Num(70)),
            statistics |-> IF Truthy(Get(s, "statistics")) THEN Get(s, "statistics") ELSE JNull])

FixWeakness(w) ==
  IF Nullish(w) THEN TypeError
  ELSE Obj([title |-> ensureString(Get(w, "title"), Str("Weakness")),
            description |-> ensureString(Get(w, "description"), Str("")),
            severity |-> ensureNumber(Get(w, "severity"), Num(50)),
            exploitablePattern |-> ensureString(Get(w, "exploitablePattern"), Str("")),
            frequency |-> IF Truthy(Get(w, "frequency")) THEN Get(w, "frequency") ELSE JNull,
            exploitationStrategy |-> ensureString(Get(w, "exploitationStrategy"), Str(""))])

FixPattern(p) ==
  IF Nullish(p) THEN TypeError
  ELSE Obj([pattern |-> ensureString(Get(p, "pattern"), Str("")),
            frequency |-> ensureNumber(Get(p, "frequency"), Num(1)),
            severity |-> ensureString(Get(p, "severity"), Str("medium"))])

FixAdjustment(a) ==
  IF Nullish(a) THEN TypeError
  ELSE Obj([ifCondition |-> ensureString(Get(a, "ifCondition"), Str("If opponent adjusts")),
            thenAction |-> ensureString(Get(a, "thenAction"), Str("Then counter-adjust"))])

AvoidReason == Str("This pattern was identified as a vulnerability based on video analysis.")
AvoidAlternative ==
  Str("Adjust your approach based on opponent reaction and reset when necessary.")

\* typeof item === 'object' holds for objects, arrays and null.
FixAvoidance(item) ==
  IF item.t = "null" THEN TypeError
  ELSE IF item.t \in {"object", "array"} /\ Truthy(Get(item, "avoidance"))
    THEN Obj([avoidance |-> ensureString(Get(item, "avoidance"), Str("Unknown avoidance")),
              reason |-> ensureString(Get(item, "reason"), AvoidReason),
              alternative |-> ensureString(Get(item, "alternative"), AvoidAlternative)])
  ELSE IF item.t = "string"
    THEN Obj([avoidance |-> item, reason |-> AvoidReason, alternative |-> AvoidAlternative])
  ELSE item

\* The callback named f applied to an element.
Callback(f, item) ==
  CASE f = "strength"   -> FixStrength(item)
    [] f = "weakness"   -> FixWeakness(item)
    [] f = "pattern"    -> FixPattern(item)
    [] f = "adjustment" -> FixAdjustment(item)
    [] f = "avoidance"  -> FixAvoidance(item)

\* arr.map(f): the callback raises on an element it cannot read.
MapItems(arr, f) ==
  IF Thrown(arr) THEN arr
  ELSE LET out == [i \in DOMAIN arr.items |-> Callback(f, arr.items[i])]
       IN  IF \E i \in DOMAIN out : Thrown(out[i]) THEN TypeError ELSE Arr(out)

\* d.sec.k = ensureArray(d.sec.k, []).map(f)
MapSection(d, sec, k, f) ==
  SetIn(d, sec, k, MapItems(ensureArray(Get(Get(d, sec), k), EmptyArray), f))

\* if (!d.sec) d.sec = isStudyMode ? null : default
Coaching_NoStudy(d, sec, isStudyMode, default) ==
  Default(d, sec, default)

Coaching(d, sec, isStudyMode, default) ==
  Default(d, sec, IF isStudyMode THEN JNull ELSE default)

\* The sections of the single-fighter path, in the order of the code.
FixGamePlan(d, isStudyMode, userRounds) ==
  LET g1 == Coaching(d, "gamePlan", isStudyMode, DefaultGamePlan)
      g2 == RebuildIfShorter(g1, "gamePlan", "roundByRound", userRounds, PlanRounds(userRounds))
      g3 == RebuildIfShorter(g2, "gamePlan", "roundGamePlans", userRounds,
                             RoundGamePlans(userRounds, "If not working, switch"))
      avoid == Get(Get(g3, "gamePlan"), "thingsToAvoid")
  IN  IF Thrown(g1) THEN TypeError
      ELSE IF isStudyMode \/ ~Truthy(Get(g1, "gamePlan")) THEN g1
      ELSE IF Thrown(g3) THEN TypeError
      ELSE IF Truthy(avoid) /\ avoid.t = "array"
        THEN SetIn(g3, "gamePlan", "thingsToAvoid", MapItems(avoid, "avoidance"))
      ELSE g3

FixMidFightAdjustments(d, isStudyMode) ==
  LET m1 == Coaching(d, "midFightAdjustments", isStudyMode, DefaultMidFightAdjustments)
  IN  IF Thrown(m1) THEN TypeError
      ELSE IF isStudyMode \/ ~Truthy(Get(m1, "midFightAdjustments")) THEN m1
      ELSE MapSection(m1, "midFightAdjustments", "adjustments", "adjustment")

SingleFighterPath(data, config, userRounds, videoRounds, isStudyMode) ==
  LET d1  == Section(data, "fighterIdentification",
               Obj([confirmedName |-> Str(NameOr(config.fighter1Name, "Unknown Fighter")),
                    visualIdentifiers |-> Str("Fighter identified based on provided description"),
                    confidenceLevel |-> Str("Medium")]),
               Coerce(Coerce(Coerce(data,
                   "fighterIdentification", "confirmedName", "ensureString",
                      Str(NameOr(config.fighter1Name, "Unknown"))),
                   "fighterIdentification", "visualIdentifiers", "ensureString", Str("Based on description")),
                   "fighterIdentification", "confidenceLevel", "ensureString", Str("Medium")))
      d2  == The({Section(d, "executiveSummary",
               Obj([overallScore |-> Num(70), summary |-> Str("Analysis completed."),
                    keyFindings |-> Strs(<<"Analysis data available">>),
                    recommendedApproach |-> Str("Review the detailed analysis sections.")]),
               Coerce(Coerce(Coerce(Coerce(d,
                   "executiveSummary", "overallScore", "ensureNumber", Num(70)),
                   "executiveSummary", "summary", "ensureString", Str("Analysis completed.")),
                   "executiveSummary", "keyFindings", "ensureArray", Strs(<<"Analysis data available">>)),
                   "executiveSummary", "recommendedApproach", "ensureString", Str("See details."))) : d \in {d1}})
      d3  == The({Section(d, "fightingStyleBreakdown",
               DefaultFightingStyle("Fighter shows mixed martial arts abilities.",
                                    Strs(<<"Balanced Skillset", "Adaptable", "Well-Rounded">>)),
               Coerce(Coerce(Coerce(d,
                   "fightingStyleBreakdown", "secondaryAttributes", "ensureArray", Strs(<<"Balanced Skillset">>)),
                   "fightingStyleBreakdown", "comparableFighters", "ensureArray", EmptyArray),
                   "fightingStyleBreakdown", "tacticalTendencies", "ensureArray", EmptyArray)) : d \in {d2}})
      d4  == The({Section(d, "strikeAnalysis", DefaultStrikeAnalysis,
               Coerce(Coerce(
                   DefaultIn(
                     Coerce(Coerce(Coerce(Coerce(d,
                       "strikeAnalysis", "accuracy", "ensureNumber", Num(50)),
                       "strikeAnalysis", "volume", "ensureNumber", Num(0)),
                       "strikeAnalysis", "powerScore", "ensureNumber", Num(50)),
                       "strikeAnalysis", "techniqueScore", "ensureNumber", Num(50)),
                     "strikeAnalysis", "breakdown", DefaultBreakdown),
                   "strikeAnalysis", "patterns", "ensureArray", EmptyArray),
                   "strikeAnalysis", "recommendations", "ensureArray", EmptyArray)) : d \in {d3}})
      d5  == The({Section(d, "grapplingAnalysis", DefaultGrapplingAnalysis,
               Coerce(Coerce(Coerce(Coerce(d,
                   "grapplingAnalysis", "takedownAccuracy", "ensureNumber", Num(50)),
                   "grapplingAnalysis", "takedownDefense", "ensureNumber", Num(50)),
                   "grapplingAnalysis", "controlTime", "ensureNumber", Num(0)),
                   "grapplingAnalysis", "submissionAttempts", "ensureNumber", Num(0))) : d \in {d4}})
      d6  == The({Default(d, "defenseAnalysis", DefaultDefenseAnalysis) : d \in {d5}})
      d7  == The({Default(d, "cardioAnalysis", DefaultCardioAnalysis) : d \in {d6}})
      d8  == The({RebuildIfEmpty(d, "cardioAnalysis", "roundByRound",
                            CardioRounds(videoRounds, " performance")) : d \in {d7}})
      d9  == The({Default(d, "fightIQ", DefaultFightIQ) : d \in {d8}})
      d10 == The({Default(d, "strengthsWeaknesses",
                     DefaultStrengthsWeaknesses("Complete analysis for details", "See detailed analysis")) : d \in {d9}})
      d11 == The({MapSection(d, "strengthsWeaknesses", "strengths", "strength") : d \in {d10}})
      d12 == The({MapSection(d, "strengthsWeaknesses", "weaknesses", "weakness") : d \in {d11}})
      d13 == The({Default(d, "mistakePatterns", DefaultMistakePatterns) : d \in {d12}})
      d14 == The({MapSection(d, "mistakePatterns", "patterns", "pattern") : d \in {d13}})
      d15 == The({Default(d, "counterStrategy", DefaultCounterStrategy) : d \in {d14}})
      d16 == The({FixGamePlan(d, isStudyMode, userRounds) : d \in {d15}})
      d17 == The({FixMidFightAdjustments(d, isStudyMode) : d \in {d16}})
      d18 == The({Coaching(d, "trainingRecommendations", isStudyMode, DefaultTrainingRecommendations) : d \in {d17}})
      d19 == The({Coaching(d, "keyInsights", isStudyMode, DefaultKeyInsights) : d \in {d18}})
      d20 == The({Default(d, "roundByRoundMetrics", Obj([rounds |-> EmptyArray])) : d \in {d19}})
  IN  The({RebuildIfShorter(d, "roundByRoundMetrics", "rounds", videoRounds,
                       MetricsRounds(videoRounds)) : d \in {d20}})

\* The both-fighters path.
TopLevelFields ==
  {"executiveSummary", "fightingStyleBreakdown", "strikeAnalysis", "grapplingAnalysis",
   "defenseAnalysis", "cardioAnalysis", "fightIQ", "strengthsWeaknesses", "mistakePatterns",
   "counterStrategy", "fighterIdentification"}

\* if (data[field] && !data.fighter1Analysis[field]): the fields copied.
Copied(d) ==
  {f \in TopLevelFields :
     Truthy(Get(d, f)) /\ ~Truthy(Get(Get(d, "fighter1Analysis"), f))}

\* data.fighter1Analysis[field] = data[field], for each of them.
CopyTopLevel(d) ==
  LET f1 == Get(d, "fighter1Analysis")
  IN  IF Thrown(d) THEN d
      ELSE IF f1.t \notin {"object", "array"} THEN d
      ELSE Set(d, "fighter1Analysis",
             [f1 EXCEPT !.props = [k \in (DOMAIN f1.props) \cup Copied(d) |->
                                     IF k \in Copied(d) THEN Get(d, k) ELSE f1.props[k]]])

\* A copied section is one object reachable from data and from
\* data.fighter1Analysis: what validateSingleFighterAnalysis writes into it
\* shows under both.
ShareCopied(d, copied) ==
  LET f1 == Get(d, "fighter1Analysis")
  IN  IF Thrown(d) THEN d
      ELSE [d EXCEPT !.props = [k \in DOMAIN d.props |->
                                  IF k \in copied THEN Get(f1, k) ELSE d.props[k]]]

\* if (data.matchupAnalysis && !data.matchupAnalysis.opponentPreparation)
MigratePrediction(d) ==
  LET m == Get(d, "matchupAnalysis")
  IN  IF Thrown(m) THEN TypeError
      ELSE IF Truthy(m) /\ ~Truthy(Get(m, "opponentPreparation"))
        THEN Set(d, "matchupAnalysis",
               Delete(Delete(Delete(Delete(
                 Set(m, "opponentPreparation", DefaultOpponentPreparation),
                 "predictedWinner"), "winProbability"), "likelyOutcome"), "predictionReasoning"))
      ELSE d

SharedGamePlan(userRounds) ==
  Obj([overallStrategy |-> Str("Implement a balanced game plan."),
       roundByRound |-> Arr(PlanRounds(userRounds)),
       roundGamePlans |-> Arr(RoundGamePlans(userRounds, "If not working")),
       keyTactics |-> EmptyArray, thingsToAvoid |-> EmptyArray])

BothFightersPath(data, config, userRounds, videoRounds, isStudyMode) ==
  LET b1 == Default(data, "fighter1Analysis", Obj(EmptyProps))
      b2 == The({Default(b, "fighter2Analysis", Obj(EmptyProps)) : b \in {b1}})
      b3 == The({Default(b, "matchupAnalysis", DefaultMatchupAnalysis) : b \in {b2}})
      b4 == The({MigratePrediction(b) : b \in {b3}})
      b5 == The({CopyTopLevel(b) : b \in {b4}})
      b6 == The({Set(b, "fighter1Analysis",
              validateSingleFighterAnalysis(Get(b, "fighter1Analysis"),
                                            NameOr(config.fighter1Name, "Fighter 1"), videoRounds)) : b \in {b5}})
      b7 == The({ShareCopied(b, Copied(b4)) : b \in {b6}})
      b8 == The({Set(b, "fighter2Analysis",
              validateSingleFighterAnalysis(Get(b, "fighter2Analysis"),
                                            NameOr(config.fighter2Name, "Fighter 2"), videoRounds)) : b \in {b7}})
      b9  == The({Coaching(b, "gamePlan", isStudyMode, SharedGamePlan(userRounds)) : b \in {b8}})
      b10 == The({Coaching(b, "midFightAdjustments", isStudyMode, DefaultMidFightAdjustments) : b \in {b9}})
      b11 == The({Coaching(b, "trainingRecommendations", isStudyMode, DefaultTrainingRecommendations) : b \in {b10}})
  IN  The({Coaching(b, "keyInsights", isStudyMode, DefaultKeyInsights) : b \in {b11}})

\* The normalized report, or TypeError when the function raises.
validateAndFixAnalysisData(data, config) ==
  LET userRounds  == OrDefault(config.userFightRounds)
      videoRounds == OrDefault(config.videoRounds)
      roleType    == getUserRoleType(config.userRole)
      isStudyMode == roleType = "study"
  IN  IF config.analysisType = "both"
        THEN BothFightersPath(data, config, userRounds, videoRounds, isStudyMode)
        ELSE SingleFighterPath(data, config, userRounds, videoRounds, isStudyMode)

\* ================================================ functions on their own
\* The pure functions of the pipeline, applied outside a job: `trial` holds
\* the function's name, its input, and (once applied) its result.
Min(a, b) == IF a <= b THEN a ELSE b
Max(a, b) == IF a >= b THEN a ELSE b

NotApplied == [t |-> "pending"]
Input(op, in) == [op |-> op, in |-> in, done |-> FALSE, out |-> NotApplied]
Applied(op) == trial.op = op /\ trial.done

\* ---------------------------------------------------------- frame selection
MaxUpload == 100   \* upload.array('frames', 100)
MaxImages == 20    \* Math.min(frames.length, 20)
ThePrompt == "prompt"

\* for (let i = 0; i < frames.length && frameCount < maxFrames; i += step):
\* the indices visited from i on, frameCount images being already pushed.
RECURSIVE SelectFrom(_, _, _, _, _)
SelectFrom(n, maxFrames, step, i, frameCount) ==
  IF i < n /\ frameCount < maxFrames
    THEN <<i>> \o SelectFrom(n, maxFrames, step, i + step, frameCount + 1)
    ELSE << >>

FrameIndices_NoCap(n) ==
  LET maxFrames == Min(n, MaxImages)
      step      == Max(1, n \div maxFrames)
  IN  SelectFrom(n, n, step, 0, 0)

\* The 0-based indices of frames[] that analyzeWithClaude sends, n >= 1.
FrameIndices(n) ==
  LET maxFrames == Min(n, MaxImages)
      step      == Max(1, n \div maxFrames)
  IN  SelectFrom(n, maxFrames, step, 0, 0)

\* The content array of the request: one image part per selected frame,
\* then content.push({ type: 'text', text: prompt }).
MessageContent(n, prompt) ==
  LET idx == FrameIndices(n)
  IN  [k \in 1..Len(idx) |-> [type |-> "image", frame |-> idx[k]]]
        \o << [type |-> "text", text |-> prompt] >>

SelectFrames ==
  /\ trial.op = "selectFrames" /\ ~trial.done
  /\ trial' = [trial EXCEPT !.done = TRUE, !.out = MessageContent(trial.in, ThePrompt)]
  /\ UNCHANGED <<analysisStore, pc, call, thrown, responded, running, http>>

\* ------------------------------------------------------ error classification
\* Errors the API call can raise: HTTP statuses of the client and server
\* ranges, or no status at all (a network failure), with or without message.
TrialStatuses == {NoStatus, 400, 401, 429, 500, 501, 502, 503, 504, 529}
TrialErrors ==
  [name : {"Error"}, status : TrialStatuses, message : ApiMessages \cup {NoMessage}]
    \cup {AbortError}

\* catch (apiError) { ... throw new Error(...) }
Classify ==
  /\ trial.op = "classify" /\ ~trial.done
  /\ trial' = [trial EXCEPT !.done = TRUE, !.out = ClassifyApiError(trial.in)]
  /\ UNCHANGED <<analysisStore, pc, call, thrown, responded, running, http>>

\* ------------------------------------------------------- response parsing
\* Texts the model can answer with: a JSON value alone, inside a markdown
\* fence, or with prose around it; prose only; nothing.
TrialBodies ==
  { <<"{", "}">>, <<"[", "]">>, <<"null">>, <<"NUM">>, <<"STR">>, <<"w">>, << >>,
    <<"{", "w">>, <<"{", "}", "w", "{", "}">> }
TrialTexts ==
  UNION { { body,
            <<"FENCE_JSON">> \o body \o <<"FENCE">>,
            <<"FENCE">> \o body \o <<"FENCE">>,
            <<"FENCE_JSON">> \o body,
            <<"w">> \o body \o <<"w">> } : body \in TrialBodies }

\* const analysisData = extractAndParseJSON(analysisText)
Extract ==
  /\ trial.op = "extract" /\ ~trial.done
  /\ trial' = [trial EXCEPT !.done = TRUE, !.out = extractAndParseJSON(trial.in)]
  /\ UNCHANGED <<analysisStore, pc, call, thrown, responded, running, http>>

\* ------------------------------------------------------------ normalizer
MaxRounds == 5
NormConfigs ==
  [analysisType : {"single", "both"},
   userRole : {NoRole, FighterPhrase, CoachPhrase, StudyPhrase},
   userFightRounds : 0..MaxRounds, videoRounds : 0..MaxRounds,
   fighter1Name : {NoName}, fighter2Name : {NoName}]

\* Per-round entries as the model writes them.
ModelCardioRound(i) ==
  Obj([roundNumber |-> Num(i), outputLevel |-> Num(60), staminaScore |-> Num(55),
       notes |-> Str("observed")])
ModelMetricsRound(i) ==
  Obj([roundNumber |-> Num(i), outputLevel |-> Num(60), notes |-> Str("observed")])
ModelPlanRound(i) ==
  Obj([roundNumber |-> Num(i), objective |-> Str("pressure"), tactics |-> Strs(<<"jab">>),
       keyFocus |-> Str("distance")])
ModelRoundGamePlan(i) == Obj([roundNumber |-> Num(i), title |-> Str("plan")])

\* Responses whose per-round collections hold n entries: none, too few,
\* the right number or too many, according to the config they meet.
ReturnedLengths == 0..(MaxRounds + 1)
CardioOf(n)  == Obj([roundByRound |-> Arr([i \in 1..n |-> ModelCardioRound(i)]), overallStamina |-> Num(65)])
MetricsOf(n) == Obj([rounds |-> Arr([i \in 1..n |-> ModelMetricsRound(i)])])
GamePlanOf(n) ==
  Obj([overallStrategy |-> Str("box"), roundByRound |-> Arr([i \in 1..n |-> ModelPlanRound(i)]),
       roundGamePlans |-> Arr([i \in 1..n |-> ModelRoundGamePlan(i)])])
RoundResponses ==
  UNION { { Obj([cardioAnalysis |-> CardioOf(n), roundByRoundMetrics |-> MetricsOf(n),
                 gamePlan |-> GamePlanOf(n)]),
            Obj([cardioAnalysis |-> CardioOf(n)]),
            Obj([roundByRoundMetrics |-> MetricsOf(n)]),
            Obj([gamePlan |-> GamePlanOf(n)]),
            Obj([fighter1Analysis |-> Obj([cardioAnalysis |-> CardioOf(n),
                                           roundByRoundMetrics |-> MetricsOf(n)]),
                 fighter2Analysis |-> Obj([cardioAnalysis |-> CardioOf(n),
                                           roundByRoundMetrics |-> MetricsOf(n)])]) }
          : n \in ReturnedLengths }

\* Responses with content of the wrong type, or with null entries.
TypedResponses ==
  { Obj([executiveSummary |-> Obj([overallScore |-> Str("85"), summary |-> Num(7),
                                   keyFindings |-> Str("none")])]),
    Obj([strikeAnalysis |-> Obj([accuracy |-> Str("high"), volume |-> Strs(<<"85">>),
                                 patterns |-> JNull])]),
    Obj([grapplingAnalysis |-> Obj([takedownAccuracy |-> Str("85"), techniques |-> Str("none")])]),
    Obj([defenseAnalysis |-> Obj([headMovement |-> Str("good"), vulnerabilities |-> Str("none")])]),
    Obj([cardioAnalysis |-> Str("good")]),
    Obj([fightIQ |-> Obj([overallScore |-> Str("85"), keyObservations |-> Obj(EmptyProps)])]),
    Obj([strengthsWeaknesses |-> Obj([strengths |-> Arr(<<JNull>>), weaknesses |-> EmptyArray])]),
    Obj([strengthsWeaknesses |-> Obj([strengths |-> Strs(<<"jab">>), weaknesses |-> Str("none")])]),
    Obj([mistakePatterns |-> Obj([patterns |-> Arr(<<JNull>>)])]),
    Obj([midFightAdjustments |-> Obj([adjustments |-> Arr(<<JNull>>)])]),
    Obj([gamePlan |-> Obj([thingsToAvoid |-> Arr(<<JNull>>)])]),
    Obj([gamePlan |-> Obj([thingsToAvoid |-> Strs(<<"brawling">>)])]),
    Obj([matchupAnalysis |-> Obj([summary |-> Str("close"), predictedWinner |-> Str("A")])]),
    Obj([matchupAnalysis |-> Obj([summary |-> Str("close"), predictedWinner |-> Str("A"),
                                  winProbability |-> Num(60),
                                  opponentPreparation |-> Obj([keyDangers |-> Strs(<<"left hook">>)])])]) }

NormResponses == {Obj(EmptyProps)} \cup RoundResponses \cup TypedResponses

\* A mistake pattern as the single-fighter prompt's schema asks for it.
SchemaPattern ==
  Obj([pattern |-> Str("drops hands"), frequency |-> Num(5), severity |-> Str("high"),
       howToExploit |-> Str("counter over the top")])

\* A fully populated, correctly typed report: what the normalizer returned,
\* or that report with a mistake pattern of the prompt's schema.
Populated(validatedData, schema) ==
  IF schema THEN SetIn(validatedData, "mistakePatterns", "patterns", Arr(<<SchemaPattern>>))
  ELSE validatedData

\* const validatedData = validateAndFixAnalysisData(analysisData, config)
\* On its own ("normalize"), as the last step of analyzeWithClaude before
\* the report is assembled ("assemble"), or twice in a row ("renormalize":
\* the first pass yields a populated report, which the second pass is given).
Normalize ==
  /\ trial.op \in {"normalize", "assemble", "renormalize"}
  /\ ~trial.done /\ trial.out = NotApplied
  /\ \E validatedData \in {validateAndFixAnalysisData(trial.in.data, trial.in.config)} :
       trial' = CASE trial.op = "normalize" ->
                       [trial EXCEPT !.done = TRUE, !.out = validatedData]
                  [] trial.op = "assemble" ->
                       [trial EXCEPT !.out = validatedData]
                  [] trial.op = "renormalize" /\ trial.in.pass = 1 ->
                       [trial EXCEPT !.in.data = Populated(validatedData, trial.in.schema),
                                     !.in.pass = 2]
                  [] trial.op = "renormalize" /\ trial.in.pass = 2 ->
                       [trial EXCEPT !.done = TRUE, !.out = validatedData]
  /\ UNCHANGED <<analysisStore, pc, call, thrown, responded, running, http>>

\* ------------------------------------------------- video round constraints
\* config.videoDuration in seconds; NoDuration when the client sent none.
NoDuration == 0
RoundMinutes == 4   \* Math.ceil(minutes / 4): 3 min round + 1 min rest
TrialDurations == {NoDuration, -60, 1, 239, 240, 241, 300, 420, 480, 481, 1800}
\* Claimed round counts: absent (0), 1..MaxRounds, and 12, far above what
\* any trial video allows.
ClaimedRounds == 0..MaxRounds \cup {12}

\* Math.ceil(num / den) and Math.round(num / den) for den > 0, num >= 0.
Ceil(num, den) == (num + den - 1) \div den
Round(num, den) == (2 * num + den) \div (2 * den)

calculateVideoRoundConstraints_Floor(videoDurationSeconds) ==
  IF videoDurationSeconds = NoDuration \/ videoDurationSeconds <= 0
    THEN [maxRounds |-> 1, videoDurationMinutes |-> 0, canDetermineRounds |-> FALSE]
    ELSE [maxRounds |-> Max(1, videoDurationSeconds \div (60 * RoundMinutes)),
          videoDurationMinutes |-> Round(videoDurationSeconds * 10, 60),
          canDetermineRounds |-> TRUE]

\* minutes = videoDurationSeconds / 60 is kept as the fraction it is, so
\* minutes / 4 is videoDurationSeconds / (60 * 4); videoDurationMinutes is
\* given in tenths of a minute (Math.round(minutes * 10) / 10).
calculateVideoRoundConstraints(videoDurationSeconds) ==
  IF videoDurationSeconds = NoDuration \/ videoDurationSeconds <= 0
    THEN [maxRounds |-> 1, videoDurationMinutes |-> 0, canDetermineRounds |-> FALSE]
    ELSE [maxRounds |-> Max(1, Ceil(videoDurationSeconds, 60 * RoundMinutes)),
          videoDurationMinutes |-> Round(videoDurationSeconds * 10, 60),
          canDetermineRounds |-> TRUE]

\* The values the both-fighters prompt interpolates: ${userRounds},
\* ${videoRounds}, ${videoConstraints.videoDurationMinutes}.
buildBothFightersPrompt(config) ==
  LET userRounds == OrDefault(config.userFightRounds)
      videoConstraints == calculateVideoRoundConstraints(config.videoDuration)
      claimedRounds == OrDefault(config.videoRounds)
      videoRounds == Min(claimedRounds, videoConstraints.maxRounds)
  IN  [prompt |-> "both", userRounds |-> userRounds, videoRounds |-> videoRounds,
       videoDurationMinutes |-> videoConstraints.videoDurationMinutes]

buildClaudePrompt(config) ==
  IF config.analysisType = "both" THEN buildBothFightersPrompt(config)
  ELSE LET userRounds == OrDefault(config.userFightRounds)
           videoConstraints == calculateVideoRoundConstraints(config.videoDuration)
           claimedRounds == OrDefault(config.videoRounds)
           videoRounds == Min(claimedRounds, videoConstraints.maxRounds)
       IN  [prompt |-> "single", userRounds |-> userRounds, videoRounds |-> videoRounds,
            videoDurationMinutes |-> videoConstraints.videoDurationMinutes]

PromptConfigs ==
  [analysisType : {"single", "both"}, userRole : {NoRole},
   userFightRounds : {0}, videoRounds : ClaimedRounds,
   videoDuration : TrialDurations, fighter1Name : {NoName}, fighter2Name : {NoName}]

\* const prompt = buildClaudePrompt(config)
BuildPrompt ==
  /\ trial.op = "buildPrompt" /\ ~trial.done
  /\ trial' = [trial EXCEPT !.done = TRUE, !.out = buildClaudePrompt(trial.in)]
  /\ UNCHANGED <<analysisStore, pc, call, thrown, responded, running, http>>

\* ------------------------------------------------------------- role type
\* Role strings a client can send: the three phrases of the app, free text
\* in any letter case, text naming several roles, text naming none.
TrialRoles ==
  { NoRole, FighterPhrase, CoachPhrase, StudyPhrase,
    <<"Coach", " of a ", "Fighter">>, <<"fighter", " and ", "coach">>,
    <<"Head ", "COACH", " / ", "study">>, <<"COACH">>, <<"FIGHTER">>, <<"STUDY">>,
    <<"Preparing To Fight">>, <<"GENERAL">>, <<"Analysis">>, <<"study", ", ", "fighter">>,
    <<"referee">>, <<"coach", "ing">> }

\* const roleType = getUserRoleType(config.userRole)
ClassifyRole ==
  /\ trial.op = "roleType" /\ ~trial.done
  /\ trial' = [trial EXCEPT !.done = TRUE, !.out = getUserRoleType(trial.in)]
  /\ UNCHANGED <<analysisStore, pc, call, thrown, responded, running, http>>

\* --------------------------------------------------- normalizing a report
\* Responses and configs for the two passes; the schema's mistake pattern is
\* put into the populated report of one fighter.
Reported == {Obj(EmptyProps)} \cup TypedResponses
RenormConfigs ==
  { config \in NormConfigs : /\ config.userFightRounds = 0
                              /\ config.videoRounds \in {0, MaxRounds} }
RenormInputs ==
  [data : Reported, config : RenormConfigs, pass : {1}, schema : {FALSE}]
    \cup [data : {Obj(EmptyProps)},
          config : {config \in RenormConfigs : config.analysisType = "single"},
          pass : {1}, schema : {TRUE}]

\* -------------------------------------------------------- report assembly
\* What processAnalysis computes for one job between the settled API call
\* and the terminal write: prompt, normalized data, normalized config, report.
AnalysisId == "analysis-1"
StoredCreatedAt == "2025-01-01T10:00:00.000Z"   \* stored.createdAt
Now == "2025-01-01T10:05:00.000Z"               \* new Date().toISOString()

ValidRoles == {FighterPhrase, CoachPhrase, StudyPhrase}
NumOrNull(n) == IF n = 0 THEN JNull ELSE Num(n)
NameOrNull(name) == IF name = NoName THEN JNull ELSE Str(name)

\* normalizeConfig on a config that carries the fields below and no
\* createdAt, id or session fields: the copy with every field assigned.
NormalizeConfigFields(config) ==
  Obj([createdAt |-> Str(Now), id |-> Str("config-now"),
       analysisType |-> Str(config.analysisType),
       userFightRounds |-> Num(OrDefault(config.userFightRounds)),
       userRole |-> Str(IF config.userRole \in ValidRoles THEN config.userRole
                        ELSE FighterPhrase),
       sessionTitle |-> JNull, sessionType |-> JNull, sessionSubtitle |-> JNull,
       fighter1Name |-> NameOrNull(config.fighter1Name), fighter1Corner |-> JNull,
       fighter1Description |-> JNull,
       fighter2Name |-> NameOrNull(config.fighter2Name), fighter2Corner |-> JNull,
       fighter2Description |-> JNull,
       videoURL |-> JNull, videoDuration |-> NumOrNull(config.videoDuration),
       videoRounds |-> NumOrNull(config.videoRounds), videoFileSize |-> JNull])

\* The own enumerable properties that { ...v } copies.
OwnProps(v) ==
  CASE v.t = "object" -> v.props
    [] v.t = "array"  -> v.props @@ [k \in {ToString(i - 1) : i \in DOMAIN v.items} |->
                                       v.items[CHOOSE i \in DOMAIN v.items : ToString(i - 1) = k]]
    [] OTHER          -> EmptyProps

\* { id, config, createdAt, completedAt, status: 'Completed', ...analysisData }:
\* a key of analysisData replaces the key written before the spread.
completeReport(analysisId, normalizedConfig, createdAt, completedAt, analysisData) ==
  LET written == [id |-> Str(analysisId), config |-> normalizedConfig,
                  createdAt |-> Str(createdAt), completedAt |-> Str(completedAt),
                  status |-> Str("Completed")]
      spread == OwnProps(analysisData)
  IN  Obj([k \in DOMAIN written \cup DOMAIN spread |->
             IF k \in DOMAIN spread THEN spread[k] ELSE written[k]])

AssemblyRoles ==
  { NoRole, CoachPhrase, StudyPhrase, <<"study">>, <<"Head ", "COACH", " / ", "study">> }
AssemblyConfigs ==
  [analysisType : {"single", "both"}, userRole : AssemblyRoles,
   userFightRounds : {0}, videoRounds : {0, MaxRounds},
   videoDuration : {NoDuration, 1800},
   fighter1Name : {NoName}, fighter2Name : {NoName}]

\* Responses that follow the round count of the prompt, and responses whose
\* top level carries keys of the report's envelope.
AssemblyResponses ==
  { Obj(EmptyProps),
    Obj([id |-> Str("report-7"), status |-> Str("Failed")]),
    Obj([config |-> JNull, createdAt |-> Str("yesterday"), completedAt |-> JNull]) }
    \cup { Obj([cardioAnalysis |-> CardioOf(n), roundByRoundMetrics |-> MetricsOf(n)])
             : n \in {1, DefaultRounds} }
    \cup { Obj([fighter1Analysis |-> Obj([cardioAnalysis |-> CardioOf(n),
                                          roundByRoundMetrics |-> MetricsOf(n)]),
                fighter2Analysis |-> Obj([cardioAnalysis |-> CardioOf(n),
                                          roundByRoundMetrics |-> MetricsOf(n)])])
             : n \in {1, DefaultRounds} }

\* processAnalysis after analyzeWithClaude has returned analysisData (the
\* normalizer's result): the assembly of completeReport; a throw of the
\* normalizer leaves no report.
Assemble ==
  /\ trial.op = "assemble" /\ ~trial.done /\ trial.out # NotApplied
  /\ LET analysisData == trial.out
     IN  trial' = [trial EXCEPT
                     !.done = TRUE,
                     !.out = [prompt |-> buildClaudePrompt(trial.in.config),
                              report |-> IF Thrown(analysisData) THEN TypeError
                                         ELSE completeReport(AnalysisId,
                                                NormalizeConfigFields(trial.in.config),
                                                StoredCreatedAt, Now, analysisData)]]
  /\ UNCHANGED <<analysisStore, pc, call, thrown, responded, running, http>>

\* ------------------------------------------------- specification (functions)
TrialInputs ==
  {Input("selectFrames", n) : n \in 1..MaxUpload}
    \cup {Input("classify", e) : e \in TrialErrors}
    \cup {Input("extract", text) : text \in TrialTexts}
    \cup {Input("normalize", [data |-> data, config |-> config]) :
             data \in NormResponses, config \in NormConfigs}
    \cup {Input("buildPrompt", config) : config \in PromptConfigs}
    \cup {Input("roleType", role) : role \in TrialRoles}
    \cup {Input("assemble", [data |-> data, config |-> config]) :
             data \in AssemblyResponses, config \in AssemblyConfigs}
    \cup {Input("renormalize", in) : in \in RenormInputs}

FnInit ==
  /\ Quiescent
  /\ trial \in TrialInputs

FnNext ==
  \/ SelectFrames
  \/ Classify
  \/ Extract
  \/ Normalize
  \/ BuildPrompt
  \/ ClassifyRole
  \/ Assemble

FnSpec == FnInit /\ [][FnNext]_vars

\* ================================================================== claims
Terminal == {"completed", "failed"}
Jobs == DOMAIN analysisStore

\* C1: a job's status only moves processing -> completed or processing ->
\* failed; a new record starts processing; once completed or failed, no step
\* of the task, of the rejection handler or of an HTTP request changes it.
C1_StatusOnlyLeavesProcessing ==
  [][\A j \in DOMAIN analysisStore' :
       IF j \in DOMAIN analysisStore
         THEN \/ analysisStore'[j].status = analysisStore[j].status
              \/ /\ analysisStore[j].status = "processing"
                 /\ analysisStore'[j].status \in Terminal
         ELSE analysisStore'[j].status = "processing"]_vars

\* A failed job on which the rejection handler has run as well.
C1_Witness ==
  \E j \in Jobs : analysisStore[j].status = "failed" /\ pc[j] = "done"
                    /\ call[j] \notin {NotCalled, Pending}

\* C2: every completed job has a report and no error; every failed job has
\* an error and no report.
C2_TerminalExclusivity ==
  \A j \in Jobs :
    /\ analysisStore[j].status = "completed" =>
         /\ "report" \in analysisStore[j].keys
         /\ analysisStore[j].report # NoReport
         /\ "error" \notin analysisStore[j].keys
    /\ analysisStore[j].status = "failed" =>
         /\ "error" \in analysisStore[j].keys
         /\ analysisStore[j].error # NoMessage
         /\ "report" \notin analysisStore[j].keys

C2_Witness ==
  \E j, k \in Jobs : analysisStore[j].status = "completed" /\ analysisStore[k].status = "failed"

\* C3: after an accepted submission the response says "processing", and a
\* status poll handled right after it (before any I/O of the job has
\* completed) answers Processing for that id.
C3_PollAfterSubmitIsProcessing ==
  \A j \in Jobs :
    (responded[j] # NoResponse /\ running = Idle /\ call[j] \in {NotCalled, Pending}) =>
      /\ responded[j].body.status = "processing"
      /\ GetStatus(analysisStore, j).body.status = "Processing"

\* C4: a submission with zero frames is answered with a 4xx, whatever its
\* config field holds.
C4_ZeroFramesIs4xx ==
  (http.res # NoResponse /\ http.req.frames = 0) => http.res.code \in 400..499

\* C5: the refund reason a status poll reports for a failed job follows the
\* class of its error: timeout, rate limit, service unavailable, bad request
\* and malformed JSON have a reason of their own (different classes, different
\* reasons), every other error has the generic server-error reason.
ErrorClassOf(message) ==
  IF Includes(message, "TIMEOUT") THEN "Timeout"
  ELSE IF Includes(message, "API_RATE_LIMIT") THEN "RateLimited"
  ELSE IF Includes(message, "API_SERVICE_ERROR") THEN "ServiceUnavailable"
  ELSE IF Includes(message, "API_BAD_REQUEST") THEN "BadRequest"
  ELSE IF message = ExtractErrorMessage THEN "MalformedResponse"
  ELSE "Other"

GenericReasons ==
  {"Server error during analysis - please try again", "Server error during analysis"}

C5_RefundReasonPerClass ==
  running = Idle =>
    \A j, k \in Jobs :
      (analysisStore[j].status = "failed" /\ analysisStore[k].status = "failed") =>
        LET rj == GetStatus(analysisStore, j).body.refundReason
            rk == GetStatus(analysisStore, k).body.refundReason
        IN  /\ (rj \in GenericReasons) <=> (ErrorClassOf(thrown[j]) = "Other")
            /\ (ErrorClassOf(thrown[j]) # ErrorClassOf(thrown[k])) => rj # rk

\* C6: every error of the model client or the normalizer is caught and
\* recorded: when the event loop is idle again no rejection is left pending
\* or unhandled, the job is failed, and a status poll answers Failed with
\* shouldRefund = true, a non-null refundReason and the error's message.
C6_ErrorsRecordedAndPolled ==
  \A j \in Jobs :
    (running = Idle /\ thrown[j] # NoMessage) =>
      /\ pc[j] = "done"
      /\ analysisStore[j].status = "failed"
      /\ LET res == GetStatus(analysisStore, j)
         IN  /\ res.code = 200
             /\ res.body.status = "Failed"
             /\ res.body.shouldRefund = TRUE
             /\ res.body.refundReason # Null
             /\ res.body.error = thrown[j]
             /\ res.body.message = thrown[j]

\* A job failed by the normalizer, and one failed by the model client.
C6_Witness ==
  /\ running = Idle
  /\ \E j \in Jobs : thrown[j] = TypeErrorNullData
  /\ \E j \in Jobs : Includes(thrown[j], "API_RATE_LIMIT")

\* C7: GET /analysis/:id and GET /api/analysis/report/:id answer the same
\* for every id in every state: 404 for an unknown id, the stored report
\* exactly when the job is completed, otherwise 202 with the job's status and
\* progress.
C7_ReportAliasAgrees ==
  \A id \in Ids :
    LET a == GetAnalysis(analysisStore, id)
        b == GetAnalysisReport(analysisStore, id)
    IN  /\ a = b
        /\ id \notin Jobs => b.code = 404
        /\ id \in Jobs =>
             IF analysisStore[id].status = "completed"
               THEN b.code = 200 /\ b.body = analysisStore[id].report /\ b.body # NoReport
               ELSE /\ b.code = 202
                    /\ b.body.status = analysisStore[id].status
                    /\ b.body.progress = analysisStore[id].progress

C7_Witness ==
  \E j, k \in Jobs :
    /\ analysisStore[j].status = "completed" /\ GetAnalysisReport(analysisStore, j).code = 200
    /\ analysisStore[k].status = "failed" /\ GetAnalysisReport(analysisStore, k).code = 202

\* C8: a job's progress starts at 0 and only takes the values 10, 30, 90,
\* 100 afterwards; every write is strictly greater than the value before and
\* is made by the job's own background task; a failure leaves it as it is.
Checkpoints == {10, 30, 90, 100}

C8_ProgressStrictlyIncreasing ==
  [][\A j \in DOMAIN analysisStore' :
       IF j \in DOMAIN analysisStore
         THEN \/ analysisStore'[j].progress = analysisStore[j].progress
              \/ /\ analysisStore'[j].progress > analysisStore[j].progress
                 /\ analysisStore'[j].progress \in Checkpoints
                 /\ running = j
                 /\ pc[j] \in {"p10", "p30", "p90", "complete"}
         ELSE analysisStore'[j].progress = 0]_vars

\* A job that failed after the model call kept its progress of 30.
C8_Witness ==
  \E j \in Jobs : analysisStore[j].status = "failed" /\ analysisStore[j].progress = 30
                    /\ pc[j] = "done"

\* C9: a record holds the frames only while its status is processing: a
\* completed or failed record has no frames property.
C9_FramesOnlyWhileProcessing ==
  \A j \in Jobs :
    /\ analysisStore[j].status \in Terminal => "frames" \notin analysisStore[j].keys
    /\ "frames" \in analysisStore[j].keys => analysisStore[j].frames > 0

C9_Witness ==
  /\ \E j \in Jobs : analysisStore[j].status = "completed" /\ "frames" \notin analysisStore[j].keys
  /\ \E j \in Jobs : analysisStore[j].status = "failed" /\ pc[j] = "rejected"
                       /\ "frames" \notin analysisStore[j].keys

\* C10: every job created eventually is completed or failed; the model call
\* of a job settles once and is never made again; a call cancelled by the
\* timeout timer ends the job failed with the timeout classification.
TimeoutReasons ==
  {"Analysis timed out - please try with a shorter video or fewer frames",
   "Analysis timed out - please try with a shorter video"}

C10_EveryJobTerminates ==
  /\ \A j \in Ids : (j \in Jobs) ~> (j \in Jobs /\ analysisStore[j].status \in Terminal)
  /\ [][\A j \in Ids : call[j] \notin {NotCalled, Pending} => call'[j] = call[j]]_vars
  /\ [](\A j \in Jobs :
          call[j] = Aborted =>
            /\ pc[j] # "p90" /\ pc[j] # "complete"
            /\ Includes(thrown[j], "TIMEOUT")
            /\ pc[j] \in {"rejected", "done"} =>
                 /\ analysisStore[j].status = "failed"
                 /\ ErrorClassOf(analysisStore[j].error) = "Timeout"
                 /\ analysisStore[j].refundReason \in TimeoutReasons)

C10_Witness ==
  \E j \in Jobs : call[j] = Aborted /\ pc[j] = "done" /\ analysisStore[j].status = "failed"

\* C11: jobs finish in whatever order their model calls return; a step
\* changes the record of at most one job, and only code running for that job
\* changes it; what a job ends as depends on its own config and on the outcome
\* of its own model call only, not on what ran in between.
SameOutcome(r1, r2) ==
  /\ r1.status = r2.status /\ r1.progress = r2.progress /\ r1.keys = r2.keys
  /\ r1.error = r2.error /\ r1.shouldRefund = r2.shouldRefund
  /\ r1.refundReason = r2.refundReason
  /\ (r1.report = NoReport) = (r2.report = NoReport)
  /\ r1.report # NoReport =>
       r1.report.config = r2.report.config /\ r1.report.data = r2.report.data

C11_JobsIndependent ==
  /\ [][\A j \in DOMAIN analysisStore :
          analysisStore'[j] # analysisStore[j] =>
            /\ running = j
            /\ \A k \in DOMAIN analysisStore : k # j => analysisStore'[k] = analysisStore[k]]_vars
  /\ [](\A j, k \in Jobs :
          (pc[j] = "done" /\ pc[k] = "done"
             /\ analysisStore[j].config = analysisStore[k].config /\ call[j] = call[k])
          => SameOutcome(analysisStore[j], analysisStore[k]))

\* The job submitted second is completed while the first is still waiting
\* for its model call.
C11_Witness ==
  /\ Len(analysisStore) = 2
  /\ pc[1] = "suspended" /\ analysisStore[1].status = "processing"
  /\ analysisStore[1].progress = 30
  /\ pc[2] = "done" /\ analysisStore[2].status = "completed"

\* ---- Frame selection.
ImageParts(content) == SelectSeq(content, LAMBDA part : part.type = "image")
FirstImages == [k \in 1..MaxImages |-> [type |-> "image", frame |-> k - 1]]

\* C12: when more than 20 frames are supplied, the frames sent are never
\* just the first 20 frames of the input.
C12_NeverFrontLoaded ==
  (Applied("selectFrames") /\ trial.in > MaxImages)
    => ImageParts(trial.out) # FirstImages

\* C13: for every number n of supplied frames the request holds exactly
\* min(n, 20) images at strictly increasing indices of the input, followed
\* by exactly one text part, the prompt.
C13_ImagesThenOnePrompt ==
  Applied("selectFrames") =>
    LET content == trial.out
        images  == ImageParts(content)
    IN  /\ Len(images) = Min(trial.in, MaxImages)
        /\ Len(content) = Len(images) + 1
        /\ \A k \in 1..Len(images) : content[k] = images[k]
        /\ \A k \in 1..Len(images) : images[k].frame \in 0..(trial.in - 1)
        /\ \A k \in 1..(Len(images) - 1) : images[k].frame < images[k + 1].frame
        /\ content[Len(content)] = [type |-> "text", text |-> ThePrompt]

C13_Witness ==
  /\ Applied("selectFrames") /\ trial.in = 45
  /\ Len(ImageParts(trial.out)) = MaxImages
  /\ trial.out[MaxImages].frame = 38

\* ---- Error classification.
\* C14: a failure of the API call is classified by its HTTP status: 429 as
\* rate limit, 400 as bad request, every 5xx status as service error, any
\* other failure as the generic API error.
C14_ClassifiedByStatus ==
  (Applied("classify") /\ trial.in.name # "AbortError") =>
    LET status == trial.in.status
        class  == Head(trial.out)
    IN  class = CASE status = 429         -> "API_RATE_LIMIT"
                  [] status = 400         -> "API_BAD_REQUEST"
                  [] status \in 500..599  -> "API_SERVICE_ERROR"
                  [] OTHER                -> "API_ERROR"

\* ---- Response parsing.
\* C20: extractAndParseJSON either returns a JSON object or raises the
\* malformed-response error; a text that parses to an array, a number, a
\* string or null raises it, and no non-object value is returned.
C20_ObjectOrMalformed ==
  Applied("extract") =>
    \/ trial.out.ok /\ trial.out.value.t = "object"
    \/ ~trial.out.ok /\ trial.out.value.t = "Error"
         /\ trial.out.value.message = ExtractErrorMessage

\* ---- Report normalizer.
Normalized == Applied("normalize") /\ ~Thrown(trial.out)
SingleMode == trial.in.config.analysisType # "both"
StudyMode  == getUserRoleType(trial.in.config.userRole) = "study"
UserRounds  == OrDefault(trial.in.config.userFightRounds)
VideoRounds == OrDefault(trial.in.config.videoRounds)

RequiredSections ==
  {"fighterIdentification", "executiveSummary", "fightingStyleBreakdown", "strikeAnalysis",
   "grapplingAnalysis", "defenseAnalysis", "cardioAnalysis", "fightIQ", "strengthsWeaknesses",
   "mistakePatterns", "counterStrategy", "gamePlan", "midFightAdjustments",
   "trainingRecommendations", "keyInsights", "roundByRoundMetrics"}
CoachingSections ==
  {"gamePlan", "midFightAdjustments", "trainingRecommendations", "keyInsights"}

\* The collection report.sec.k has exactly n entries, numbered from 1.
ExactRounds(report, sec, k, n) ==
  LET rounds == Get(Get(report, sec), k)
  IN  /\ rounds.t = "array"
      /\ Len(rounds.items) = n
      /\ \A i \in 1..Len(rounds.items) : Get(rounds.items[i], "roundNumber") = Num(i)

\* C15: for the empty response {} and a config in single-fighter mode with a
\* non-study role and both round counts given, the report has every
\* required top-level section, the game-plan round arrays have exactly
\* userFightRounds entries and the cardio and metrics round arrays exactly
\* videoRounds entries, numbered from 1.
C15_EmptyResponseFilled ==
  (Applied("normalize") /\ trial.in.data = Obj(EmptyProps) /\ SingleMode /\ ~StudyMode
     /\ trial.in.config.userFightRounds >= 1 /\ trial.in.config.videoRounds >= 1)
  => /\ ~Thrown(trial.out)
     /\ \A sec \in RequiredSections : Get(trial.out, sec).t = "object"
     /\ ExactRounds(trial.out, "gamePlan", "roundByRound", trial.in.config.userFightRounds)
     /\ ExactRounds(trial.out, "gamePlan", "roundGamePlans", trial.in.config.userFightRounds)
     /\ ExactRounds(trial.out, "cardioAnalysis", "roundByRound", trial.in.config.videoRounds)
     /\ ExactRounds(trial.out, "roundByRoundMetrics", "rounds", trial.in.config.videoRounds)

C15_Witness ==
  /\ Normalized /\ trial.in.data = Obj(EmptyProps) /\ SingleMode
  /\ trial.in.config.userRole = FighterPhrase
  /\ trial.in.config.userFightRounds = 5 /\ trial.in.config.videoRounds = 2
  /\ Len(Get(Get(trial.out, "gamePlan"), "roundGamePlans").items) = 5
  /\ Len(Get(Get(trial.out, "roundByRoundMetrics"), "rounds").items) = 2

\* C16: after normalization each per-round collection has exactly as many
\* entries as the round count of its context, whatever number of entries
\* the model returned.
C16_RoundCollectionsExact ==
  (Normalized /\ SingleMode)
  => /\ ExactRounds(trial.out, "cardioAnalysis", "roundByRound", VideoRounds)
     /\ ExactRounds(trial.out, "roundByRoundMetrics", "rounds", VideoRounds)
     /\ ~StudyMode => /\ ExactRounds(trial.out, "gamePlan", "roundByRound", UserRounds)
                      /\ ExactRounds(trial.out, "gamePlan", "roundGamePlans", UserRounds)

\* C17: with a role that classifies as study and a response without
\* coaching sections, the report has gamePlan, midFightAdjustments,
\* trainingRecommendations and keyInsights each present and null, in
\* single-fighter and in both-fighters mode.
C17_StudyCoachingNull ==
  (Normalized /\ StudyMode /\ \A sec \in CoachingSections : ~Truthy(Get(trial.in.data, sec)))
  => \A sec \in CoachingSections :
       sec \in DOMAIN trial.out.props /\ trial.out.props[sec] = JNull

C17_Witness ==
  /\ Normalized /\ ~SingleMode /\ trial.in.config.userRole = StudyPhrase
  /\ trial.in.data = Obj(EmptyProps)
  /\ Get(trial.out, "fighter2Analysis").t = "object"
  /\ Get(trial.out, "keyInsights") = JNull

\* C18: for every JSON object the model returns and every config,
\* validateAndFixAnalysisData returns a report; it never raises.
C18_NeverThrows ==
  (Applied("normalize") /\ trial.in.data.t = "object") => ~Thrown(trial.out)

\* The fields that the default sections hold as lists and as numbers.
ListFields ==
  [executiveSummary |-> {"keyFindings"},
   fightingStyleBreakdown |-> {"secondarySkills", "baseMartialArts", "secondaryAttributes",
                               "comparableFighters", "tacticalTendencies"},
   strikeAnalysis |-> {"patterns", "recommendations"},
   grapplingAnalysis |-> {"techniques", "recommendations"},
   defenseAnalysis |-> {"vulnerabilities", "improvements"},
   cardioAnalysis |-> {"roundByRound", "fatigueIndicators", "recommendations"},
   fightIQ |-> {"keyObservations", "improvements"},
   strengthsWeaknesses |-> {"strengths", "weaknesses", "opportunitiesToExploit"},
   mistakePatterns |-> {"patterns"},
   counterStrategy |-> {"techniquesToEmphasize"}]
NumberFields ==
  [executiveSummary |-> {"overallScore"},
   strikeAnalysis |-> {"accuracy", "volume", "powerScore", "techniqueScore"},
   grapplingAnalysis |-> {"takedownAccuracy", "takedownDefense", "controlTime", "submissionAttempts"},
   defenseAnalysis |-> {"headMovement", "footwork", "blockingRate", "counterStrikeRate"},
   cardioAnalysis |-> {"overallStamina"},
   fightIQ |-> {"overallScore", "decisionMaking", "adaptability", "strategyExecution"}]

\* C19: after normalization of any JSON object, every list-typed field of
\* every section is a list and every scalar field has its primitive type,
\* also in the sections that the model supplied itself.
C19_SchemaUnconditional ==
  (Normalized /\ SingleMode /\ trial.in.data.t = "object")
  => /\ \A sec \in DOMAIN ListFields : \A k \in ListFields[sec] :
          Get(Get(trial.out, sec), k).t = "array"
     /\ \A sec \in DOMAIN NumberFields : \A k \in NumberFields[sec] :
          Get(Get(trial.out, sec), k).t = "number"

\* ------------------------------------------------------------ prompt rounds
Prompted == Applied("buildPrompt")
ClaimedOf(config) == IF config.videoRounds = 0 THEN 3 ELSE config.videoRounds
\* The least k >= 1 with k * 240 >= seconds, i.e. max(1, ceil(seconds / 240)).
MaxRoundsOf(seconds) ==
  IF seconds <= 0 THEN 1
  ELSE CHOOSE k \in 1..seconds : k * 240 >= seconds /\ (k = 1 \/ (k - 1) * 240 < seconds)

Spellings ==
  [w \in {"preparing to fight", "fighter", "coach", "study", "analysis", "general"} |->
     CASE w = "preparing to fight" -> {"preparing to fight", "Preparing To Fight"}
       [] w = "fighter"  -> {"fighter", "Fighter", "FIGHTER"}
       [] w = "coach"    -> {"coach", "Coach", "COACH"}
       [] w = "study"    -> {"study", "STUDY"}
       [] w = "analysis" -> {"analysis", "Analysis"}
       [] w = "general"  -> {"general", "General", "GENERAL"}]
Mentions(role, w) == \E i \in DOMAIN role : role[i] \in Spellings[w]
MentionsFighter(role) == Mentions(role, "preparing to fight") \/ Mentions(role, "fighter")
MentionsStudy(role) ==
  Mentions(role, "study") \/ Mentions(role, "analysis") \/ Mentions(role, "general")

\* C22: getUserRoleType maps every role string to exactly one of fighter,
\* coach, study, whatever the letter case, checking the fighter phrases
\* first, then coach, then study/analysis/general: a role naming both a
\* coach and a fighter is a fighter, and an empty or absent role, or one that
\* names no phrase, is a fighter.
C22_RoleTypeFirstMatch ==
  Applied("roleType") =>
    LET role == trial.in
    IN  /\ trial.out \in {"fighter", "coach", "study"}
        /\ MentionsFighter(role) => trial.out = "fighter"
        /\ ~MentionsFighter(role) /\ Mentions(role, "coach") => trial.out = "coach"
        /\ ~MentionsFighter(role) /\ ~Mentions(role, "coach") /\ MentionsStudy(role)
             => trial.out = "study"
        /\ ~MentionsFighter(role) /\ ~Mentions(role, "coach") /\ ~MentionsStudy(role)
             => trial.out = "fighter"
        /\ role = NoRole => trial.out = "fighter"

C22_Witness ==
  /\ Applied("roleType")
  /\ Mentions(trial.in, "coach") /\ Mentions(trial.in, "fighter")
  /\ "Coach" \in {trial.in[i] : i \in DOMAIN trial.in}
  /\ trial.out = "fighter"

\* --------------------------------------------------------------- idempotence
\* The second pass has run on a populated report.
Renormalized == Applied("renormalize") /\ ~Thrown(trial.in.data)

\* C23: normalizing an already fully populated, correctly typed report
\* returns it unchanged: no field that is already valid is overwritten.
C23_FullReportUnchanged ==
  Renormalized => trial.out = trial.in.data

\* The part of C23 that holds: the normalizer applied to its own output,
\* with the same config, returns that output.
C23_OwnOutputUnchanged ==
  Renormalized /\ ~trial.in.schema => trial.out = trial.in.data

\* ------------------------------------------------------------ thingsToAvoid
AvoidBefore == Get(Get(trial.in.data, "gamePlan"), "thingsToAvoid")
AvoidAfter  == Get(Get(trial.out, "gamePlan"), "thingsToAvoid")

\* C24: for a non-study role, in every analysis mode, each entry of
\* gamePlan.thingsToAvoid that the model returned as a plain string is, after
\* normalization, the object {avoidance: that string, reason: filler,
\* alternative: filler}; no plain string is left in the list.
C24_AvoidStringsUpgraded ==
  Normalized /\ ~StudyMode /\ AvoidBefore.t = "array" =>
    /\ AvoidAfter.t = "array" /\ Len(AvoidAfter.items) = Len(AvoidBefore.items)
    /\ \A i \in DOMAIN AvoidBefore.items :
         AvoidBefore.items[i].t = "string" =>
           AvoidAfter.items[i] = Obj([avoidance |-> AvoidBefore.items[i],
                                      reason |-> AvoidReason,
                                      alternative |-> AvoidAlternative])

\* ------------------------------------------------------- matchup migration
PredictionFields ==
  {"predictedWinner", "winProbability", "likelyOutcome", "predictionReasoning"}
Matchup == Get(trial.out, "matchupAnalysis")

\* C25: in both-fighters mode, after normalization of any model response,
\* matchupAnalysis has an opponentPreparation sub-section and none of the
\* obsolete prediction fields predictedWinner, winProbability, likelyOutcome,
\* predictionReasoning.
C25_PredictionMigrated ==
  Normalized /\ ~SingleMode =>
    /\ Matchup.t = "object"
    /\ "opponentPreparation" \in DOMAIN Matchup.props
    /\ Matchup.props["opponentPreparation"].t = "object"
    /\ PredictionFields \cap DOMAIN Matchup.props = {}

\* ------------------------------------------------------------ stored config
\* C26: completing a job leaves the config stored on the job record exactly
\* as the caller submitted it: the normalized config is a new object that is
\* attached only to the report; no step of the job modifies the stored one.
C26_StoredConfigKept ==
  [][\A j \in DOMAIN analysisStore :
       /\ analysisStore'[j].config = analysisStore[j].config
       /\ analysisStore'[j].status = "completed" =>
            analysisStore'[j].report.config = normalizeConfig(analysisStore[j].config)]_vars

C26_Witness ==
  \E j \in DOMAIN analysisStore :
    /\ analysisStore[j].status = "completed"
    /\ analysisStore[j].config = [t |-> "object", userRole |-> "undefined"]
    /\ analysisStore[j].report.config.userRole = DefaultRole
    /\ analysisStore[j].report.config # analysisStore[j].config

\* ---------------------------------------------------------- report assembly
Assembled == Applied("assemble") /\ ~Thrown(trial.out.report)
Report == trial.out.report

\* C27: the identity fields of a completed job's report are the ones the job
\* lifecycle set, whatever top-level keys the model's JSON contains: id is
\* the job id, status is "Completed", config is the normalized request
\* config, createdAt and completedAt are the job's timestamps.
C27_IdentityFromLifecycle ==
  Assembled =>
    /\ Get(Report, "id") = Str(AnalysisId)
    /\ Get(Report, "status") = Str("Completed")
    /\ Get(Report, "config") = NormalizeConfigFields(trial.in.config)
    /\ Get(Report, "createdAt") = Str(StoredCreatedAt)
    /\ Get(Report, "completedAt") = Str(Now)

\* The per-fighter parts of a response or report: the value itself for one
\* fighter, fighter1Analysis and fighter2Analysis for both.
Subjects ==
  IF trial.in.config.analysisType = "both" THEN {"fighter1Analysis", "fighter2Analysis"}
  ELSE {"itself"}
Part(v, subject) == IF subject = "itself" THEN v ELSE Get(v, subject)
MetricsRoundsIn(v) == Get(Get(v, "roundByRoundMetrics"), "rounds")
CardioRoundsIn(v)  == Get(Get(v, "cardioAnalysis"), "roundByRound")

\* C28: the video round count the normalizer enforces on
\* cardioAnalysis.roundByRound and roundByRoundMetrics.rounds is the
\* duration-clamped count the prompt asked for: a response holding exactly
\* the number of rounds the prompt asked for is kept, never replaced by
\* placeholder rounds.
C28_AskedRoundsKept ==
  Assembled =>
    \A subject \in Subjects :
      LET answered == Part(trial.in.data, subject)
          reported == Part(Report, subject)
      IN  /\ MetricsRoundsIn(answered).t = "array"
          /\ Len(MetricsRoundsIn(answered).items) = trial.out.prompt.videoRounds
          /\ Len(CardioRoundsIn(answered).items) = trial.out.prompt.videoRounds
          => /\ MetricsRoundsIn(reported) = MetricsRoundsIn(answered)
             /\ CardioRoundsIn(reported) = CardioRoundsIn(answered)

\* report.config.userRole, for a response that carries no config of its own.
OwnConfig == "config" \notin DOMAIN trial.in.data.props
ReportRole == Get(Get(Report, "config"), "userRole").s

\* C29: the userRole written into report.config classifies, by
\* getUserRoleType, to the role type that gated the coaching sections of the
\* report; whenever the coaching sections were nulled for the study role,
\* report.config.userRole is the study phrase, for every submitted userRole.
C29_ReportRoleMatchesGate ==
  Assembled /\ OwnConfig =>
    /\ getUserRoleType(ReportRole) = getUserRoleType(trial.in.config.userRole)
    /\ (\A sec \in CoachingSections : Get(Report, sec) = JNull) => ReportRole = StudyPhrase

\* ------------------------------------------------------ progress and status
\* What GET /api/analysis/status/:id answers for job id in this state.
Polled(id) == GetStatus(analysisStore, id).body

\* C30: in every state a poll can observe, a job's progress is 100 if and
\* only if its status is Completed: no poll runs between the status and the
\* progress write of a completion, and a failed job keeps a progress below 100.
C30_FullProgressIffCompleted ==
  running = Idle =>
    \A id \in DOMAIN analysisStore :
      /\ Polled(id).progress = 100 <=> Polled(id).status = "Completed"
      /\ Polled(id).status = "Failed" => Polled(id).progress < 100

C30_Witness ==
  /\ running = Idle
  /\ \E id \in DOMAIN analysisStore :
       Polled(id).status = "Completed" /\ Polled(id).progress = 100
  /\ \E id \in DOMAIN analysisStore :
       Polled(id).status = "Failed" /\ Polled(id).progress = 30 /\ pc[id] = "done"

====
